---- MODULE Spec2Model ----
(***************************************************************************)
(* The in-memory filesystem of internal/filesystem/memory.go as a state    *)
(* machine.  The heap of directory and file nodes is explicit: nodes have  *)
(* identities, parent back-references, and child/file mappings that are    *)
(* either nil (never allocated) or allocated, as Go maps are.  A path is a *)
(* sequence of one-character strings, so that resolve, locate, dirName and *)
(* baseName are computed character by character as the code does.          *)
(***************************************************************************)
EXTENDS Integers, Sequences, FiniteSets, TLC

VARIABLES heap, fsys, clock, last, sandbox, promises, value, frames

vars == <<heap, fsys, clock, last, sandbox, promises, value, frames>>

(***************************************************************************)
(* Bounds of the model.                                                     *)
(***************************************************************************)
\* largest value of the logical clock that stands for time.Now()
MaxClock == 1
\* largest number of live directory nodes a call may leave behind
MaxNodes == 5
\* longest file text written
MaxText == 1
\* the number of patterns of one Glob call
MaxPatterns == 2
\* largest number of live directory nodes when directories are nested deeper
MaxNest == 6
\* the number of asynchronous calls the script makes
MaxPromises == 2
\* longest Go string, in bytes, handed to MakeValue
MaxBytes == 3
\* the number of mkdir calls that run at once
MaxFrames == 2

(***************************************************************************)
(* Strings.                                                                 *)
(***************************************************************************)
\* Go's nil pointer
NilId == 0

\* the empty string
EmptyStr == << >>

\* the one-character separator string "/"
Sep == <<"/">>

\* strings.HasSuffix(s, "/")
HasSuffixSep(s) == Len(s) > 0 /\ s[Len(s)] = "/"

\* strings.HasPrefix(s, "/")
HasPrefixSep(s) == Len(s) > 0 /\ s[1] = "/"

\* strings.LastIndex(s, "/"), 1-based; 0 stands for Go's -1
LastIndexSep(s) ==
    LET hits == {i \in 1..Len(s) : s[i] = "/"}
    IN  IF hits = {} THEN 0 ELSE CHOOSE i \in hits : \A j \in hits : j <= i

\* strings.Split(s, "/"): the pieces between separators; one empty piece for ""
Split(s) ==
    LET RECURSIVE F(_, _, _)
        F(i, cur, acc) ==
            IF i > Len(s) THEN Append(acc, cur)
            ELSE IF s[i] = "/" THEN F(i + 1, EmptyStr, Append(acc, cur))
            ELSE F(i + 1, Append(cur, s[i]), acc)
    IN  F(1, EmptyStr, << >>)

\* strings.ToLower on one character of the alphabet the inputs use
LowerChar(c) == CASE c = "A" -> "a" [] c = "B" -> "b" [] OTHER -> c

\* strings.ToLower
ToLower(s) == [i \in 1..Len(s) |-> LowerChar(s[i])]

\* a strip of one trailing separator only
TrimSuffixSepOnce(s) ==
    IF HasSuffixSep(s) THEN SubSeq(s, 1, Len(s) - 1) ELSE s

\* the loop that strips every trailing separator (resolve, glob)
RECURSIVE TrimSuffixSeps(_)
TrimSuffixSeps(s) ==
    IF HasSuffixSep(s) THEN TrimSuffixSeps(SubSeq(s, 1, Len(s) - 1)) ELSE s

\* dirName of utils.go
dirName(filePath) ==
    LET i == LastIndexSep(filePath)
    IN  IF i = 0 THEN EmptyStr
        ELSE LET dir == SubSeq(filePath, 1, i - 1)
             IN  IF dir = EmptyStr THEN Sep ELSE dir

\* baseName of utils.go: filePath[i:] keeps the separator at index i
baseName(filePath) ==
    LET i == LastIndexSep(filePath)
    IN  IF i = 0 THEN filePath ELSE SubSeq(filePath, i, Len(filePath))

\* isFilePath of memory.go
isFilePath(path) == path # EmptyStr /\ ~HasSuffixSep(path)

\* strings.HasPrefix(s, prefix)
HasPrefix(s, prefix) ==
    Len(prefix) <= Len(s) /\ SubSeq(s, 1, Len(prefix)) = prefix

\* cleanHeadSlash of utils.go: the loop that strips every leading separator
RECURSIVE cleanHeadSlash(_)
cleanHeadSlash(path) ==
    IF HasPrefixSep(path) THEN cleanHeadSlash(SubSeq(path, 2, Len(path)))
    ELSE path

\* filepath.ToSlash: every host separator (os.PathSeparator, "/" in this
\* build) becomes "/"
ToSlash(path) ==
    LET Separator == "/"
    IN  [i \in 1..Len(path) |-> IF path[i] = Separator THEN "/" ELSE path[i]]

\* path.Clean: empty and "." elements go, ".." takes the element before it
\* away, ".." at the head of a rooted path goes, "" becomes "."
pathClean(path) ==
    LET rooted == HasPrefixSep(path)
        Dot == <<".">>
        DotDot == <<".", ".">>
        RECURSIVE JoinParts(_)
        JoinParts(parts) ==
            IF parts = << >> THEN EmptyStr
            ELSE IF Len(parts) = 1 THEN parts[1]
            ELSE parts[1] \o Sep \o JoinParts(Tail(parts))
        RECURSIVE Walk(_, _)
        Walk(parts, out) ==
            IF parts = << >> THEN out
            ELSE LET e == Head(parts)
                     rest == Tail(parts)
                 IN  IF e = EmptyStr \/ e = Dot THEN Walk(rest, out)
                     ELSE IF e = DotDot
                     THEN IF out # << >> /\ out[Len(out)] # DotDot
                          THEN Walk(rest, SubSeq(out, 1, Len(out) - 1))
                          ELSE IF rooted THEN Walk(rest, out)
                          ELSE Walk(rest, Append(out, e))
                     ELSE Walk(rest, Append(out, e))
        body == JoinParts(Walk(Split(path), << >>))
    IN  IF path = EmptyStr THEN Dot
        ELSE IF rooted THEN Sep \o body
        ELSE IF body = EmptyStr THEN Dot
        ELSE body

\* path.Join of two elements: empty elements are left out, the rest is
\* joined by "/" and cleaned; "" when both are empty
pathJoin(a, b) ==
    IF a = EmptyStr /\ b = EmptyStr THEN EmptyStr
    ELSE IF a = EmptyStr THEN pathClean(b)
    ELSE IF b = EmptyStr THEN pathClean(a)
    ELSE pathClean(a \o Sep \o b)

(***************************************************************************)
(* Go maps: nil (reads find nothing, a write panics) or allocated.          *)
(***************************************************************************)
NoEntries == [k \in {} |-> NilId]

NilMap == [nil |-> TRUE, m |-> NoEntries]

MakeMap == [nil |-> FALSE, m |-> NoEntries]

MapHas(mp, k) == k \in DOMAIN mp.m

MapKeys(mp) == DOMAIN mp.m

\* mp[k] = v on an allocated map
MapPut(mp, k, v) ==
    [nil |-> FALSE,
     m |-> [x \in (DOMAIN mp.m) \cup {k} |-> IF x = k THEN v ELSE mp.m[x]]]

\* delete(mp, k): no effect on a nil map or a missing key
MapDelete(mp, k) ==
    [nil |-> mp.nil, m |-> [x \in (DOMAIN mp.m) \ {k} |-> mp.m[x]]]

(***************************************************************************)
(* The heap: h.d maps directory node ids to MemoryDirNode records, h.f maps *)
(* file node ids to MemoryFileNode records.                                 *)
(***************************************************************************)
\* &MemoryDirNode{...}
MemoryDirNode(parent, name, children, files, size, modeTime) ==
    [parent |-> parent, name |-> name, children |-> children,
     files |-> files, size |-> size, modeTime |-> modeTime]

\* &MemoryFileNode{...}
MemoryFileNode(parent, name, content, modeTime) ==
    [parent |-> parent, name |-> name, content |-> content,
     modeTime |-> modeTime]

\* the smallest unused id of a node table
FreshId(tbl) ==
    CHOOSE i \in 1..(Cardinality(DOMAIN tbl) + 1) :
        /\ i \notin DOMAIN tbl
        /\ \A j \in 1..(i - 1) : j \in DOMAIN tbl

\* allocation of a directory node
AllocDir(h, id, node) ==
    [h EXCEPT !.d = [x \in (DOMAIN h.d) \cup {id} |->
                        IF x = id THEN node ELSE h.d[x]]]

\* allocation of a file node
AllocFile(h, id, node) ==
    [h EXCEPT !.f = [x \in (DOMAIN h.f) \cup {id} |->
                        IF x = id THEN node ELSE h.f[x]]]

\* MemoryFileNode.Size
FileSize(h, f) == Len(h.f[f].content)

\* MemoryDirNode.Size
DirSize(h, d) == h.d[d].size

\* MemoryDirNode.fullPath / FullPath: the parent's path, "/", the name
RECURSIVE DirFullPath(_, _)
DirFullPath(h, d) ==
    (IF h.d[d].parent # NilId THEN DirFullPath(h, h.d[d].parent) ELSE EmptyStr)
        \o Sep \o h.d[d].name

\* MemoryFileNode.fullPath / FullPath
FileFullPath(h, f) == DirFullPath(h, h.f[f].parent) \o Sep \o h.f[f].name

(***************************************************************************)
(* Path resolution and navigation.                                          *)
(***************************************************************************)
\* MemoryFS.normName
normName(fs, name) == IF fs.caseSensitive THEN name ELSE ToLower(name)

\* resolve that leaves a relative path as it was given
resolveAsGiven(h, fs, path) == normName(fs, TrimSuffixSeps(path))

\* MemoryFS.resolve
resolve(h, fs, path) ==
    LET p == normName(fs, TrimSuffixSeps(path))
    IN  IF HasPrefixSep(p) THEN p
        ELSE LET currentPath == DirFullPath(h, fs.current)
             IN  IF currentPath = Sep THEN currentPath \o p
                 ELSE currentPath \o Sep \o p

\* locateMissing that answers the containing directory to every caller
locateMissingLastPart(node, dirOfFile, isLastPart) ==
    IF isLastPart
    THEN [dir |-> node, file |-> NilId]
    ELSE [dir |-> NilId, file |-> NilId]

\* locateMissing that takes any missing segment for the file to create
locateMissingAnyPart(node, dirOfFile, isLastPart) ==
    IF dirOfFile
    THEN [dir |-> node, file |-> NilId]
    ELSE [dir |-> NilId, file |-> NilId]

\* the answer of locate when a segment names neither a directory nor a file
locateMissing(node, dirOfFile, isLastPart) ==
    IF dirOfFile /\ isLastPart
    THEN [dir |-> node, file |-> NilId]
    ELSE [dir |-> NilId, file |-> NilId]

\* the answer of locate when a segment names a file
locateFile(h, file, isLastPart) ==
    IF isLastPart
    THEN [dir |-> h.f[file].parent, file |-> file]
    ELSE [dir |-> NilId, file |-> NilId]

\* the loop of MemoryFS.locate from part i on
RECURSIVE locateFrom(_, _, _, _, _)
locateFrom(h, parts, i, node, dirOfFile) ==
    IF i > Len(parts) THEN [dir |-> node, file |-> NilId]
    ELSE LET part == parts[i]
             isLastPart == (i = Len(parts))
         IN  IF part = EmptyStr
             THEN locateFrom(h, parts, i + 1, node, dirOfFile)
             ELSE IF MapHas(h.d[node].children, part)
             THEN locateFrom(h, parts, i + 1,
                             h.d[node].children.m[part], dirOfFile)
             ELSE IF MapHas(h.d[node].files, part)
             THEN locateFile(h, h.d[node].files.m[part], isLastPart)
             ELSE locateMissing(node, dirOfFile, isLastPart)

\* MemoryFS.locate
locate(h, fs, path, dirOfFile) ==
    locateFrom(h, Split(path), 1, fs.current, dirOfFile)

(***************************************************************************)
(* Results of a call: the heap it leaves and "ok", an error kind, or        *)
(* "panic" when the Go runtime aborts the call (assignment to an entry of a *)
(* nil map, or a recursion that never reaches a base case).                 *)
(***************************************************************************)
Ret(h, err) == [h |-> h, err |-> err]

\* the Go runtime ended the call: "panic" for an assignment to an entry of a
\* nil map, "overflow" for a recursion that never reaches its base case (the
\* goroutine's stack grows until the runtime stops the process)
Panicked(r) == r.err \in {"panic", "overflow"}

\* field updates of one directory node
SetDir(h, d, node) == [h EXCEPT !.d[d] = node]

\* field updates of one file node
SetFile(h, f, node) == [h EXCEPT !.f[f] = node]

\* time.Time.After
After(t, u) == t > u

(***************************************************************************)
(* Node methods.                                                            *)
(***************************************************************************)
\* MemoryDirNode.Delete
DirDelete(h, d, now) ==
    LET p == h.d[d].parent
    IN  IF p = NilId THEN h
        ELSE IF MapHas(h.d[p].children, h.d[d].name)
                /\ h.d[p].children.m[h.d[d].name] = d
        THEN SetDir(h, p, [h.d[p] EXCEPT
                 !.children = MapDelete(h.d[p].children, h.d[d].name),
                 !.size = h.d[p].size - DirSize(h, d),
                 !.modeTime = now])
        ELSE h

\* MemoryFileNode.Delete
FileDelete(h, f, now) ==
    LET p == h.f[f].parent
    IN  IF p = NilId THEN h
        ELSE IF MapHas(h.d[p].files, h.f[f].name)
                /\ h.d[p].files.m[h.f[f].name] = f
        THEN SetDir(h, p, [h.d[p] EXCEPT
                 !.files = MapDelete(h.d[p].files, h.f[f].name),
                 !.size = h.d[p].size - FileSize(h, f),
                 !.modeTime = now])
        ELSE h

\* Clean that leaves the child directories in place
CleanKeepChildren(h, d, now) ==
    SetDir(h, d, [h.d[d] EXCEPT !.files = NilMap, !.size = 0,
                                !.modeTime = now])

\* MemoryDirNode.Clean
Clean(h, d, now) ==
    SetDir(h, d, [h.d[d] EXCEPT !.children = NilMap, !.files = NilMap,
                                !.size = 0, !.modeTime = now])

\* MemoryFileNode.overwrite
overwrite(h, f, file) ==
    LET sizeDiff == FileSize(h, file) - FileSize(h, f)
        p == h.f[f].parent
        newer == After(h.f[file].modeTime, h.f[f].modeTime)
        h1 == SetFile(h, f, [h.f[f] EXCEPT
                  !.content = h.f[file].content,
                  !.modeTime = IF newer THEN h.f[file].modeTime ELSE @])
        h2 == IF newer /\ p # NilId
              THEN SetDir(h1, p, [h1.d[p] EXCEPT !.modeTime = h.f[file].modeTime])
              ELSE h1
    IN  IF p # NilId
        THEN SetDir(h2, p, [h2.d[p] EXCEPT !.size = @ + sizeDiff])
        ELSE h2

\* MemoryFileNode.copy: a new node that keeps the original's parent
fileCopy(h, f, modTime) ==
    LET id == FreshId(h.f)
    IN  [h |-> AllocFile(h, id, MemoryFileNode(h.f[f].parent, h.f[f].name,
                                               h.f[f].content, modTime)),
         id |-> id]

(***************************************************************************)
(* Iteration over a Go map.  The order is unspecified, and an entry added   *)
(* to a map while a range loop runs over it may or may not be produced; a   *)
(* call draws both from an oracle it: it.desc picks the order of the keys,  *)
(* it.seeNew says whether entries added during the loop are produced.       *)
(***************************************************************************)
CharCode(c) == CASE c = "/" -> 1 [] c = "a" -> 2 [] c = "b" -> 3
                 [] c = "A" -> 4 [] c = "B" -> 5 [] OTHER -> 6

RECURSIVE StrCode(_)
StrCode(s) ==
    IF s = EmptyStr THEN 0
    ELSE StrCode(SubSeq(s, 1, Len(s) - 1)) * 8 + CharCode(s[Len(s)])

Iterations == [desc : BOOLEAN, seeNew : BOOLEAN]

\* the key a range loop produces next
NextKey(todo, it) ==
    CHOOSE k \in todo :
        \A j \in todo : IF it.desc THEN StrCode(j) <= StrCode(k)
                                   ELSE StrCode(k) <= StrCode(j)

\* the keys a range loop has still to produce
RangeTodo(mp, snapshot, done, it) ==
    (IF it.seeNew THEN snapshot \cup MapKeys(mp) ELSE snapshot) \ done

(***************************************************************************)
(* MemoryDirNode.deepCopy.                                                  *)
(***************************************************************************)
\* the directory nodes reachable from d through child mappings, d included
DirReach(h, d) ==
    LET RECURSIVE Grow(_)
        Grow(S) ==
            LET T == S \cup UNION {{h.d[x].children.m[k] :
                                       k \in MapKeys(h.d[x].children)} : x \in S}
            IN  IF T = S THEN S ELSE Grow(T)
    IN  Grow({d})

\* some directory below d (or d) is its own descendant
HasCycle(h, d) ==
    \E x \in DirReach(h, d) :
        \E k \in MapKeys(h.d[x].children) :
            x \in DirReach(h, h.d[x].children.m[k])

RECURSIVE deepCopy(_, _, _), deepCopyChildren(_, _, _, _, _),
          deepCopyFiles(_, _, _, _, _)
\* the loop of deepCopy over d.children
deepCopyChildren(h, src, todo, acc, modTime) ==
    IF todo = {} THEN [h |-> h, m |-> acc]
    ELSE LET k == CHOOSE k \in todo : TRUE
             r == deepCopy(h, src.m[k], modTime)
         IN  deepCopyChildren(r.h, src, todo \ {k}, MapPut(acc, k, r.id),
                              modTime)

\* the loop of deepCopy over d.files
deepCopyFiles(h, src, todo, acc, modTime) ==
    IF todo = {} THEN [h |-> h, m |-> acc]
    ELSE LET k == CHOOSE k \in todo : TRUE
             r == fileCopy(h, src.m[k], modTime)
         IN  deepCopyFiles(r.h, src, todo \ {k}, MapPut(acc, k, r.id),
                           modTime)

\* MemoryDirNode.deepCopy on a subtree without cycles
deepCopy(h, d, modTime) ==
    LET node == h.d[d]
        cs == IF node.children.nil THEN [h |-> h, m |-> NilMap]
              ELSE deepCopyChildren(h, node.children, MapKeys(node.children),
                                    MakeMap, modTime)
        fls == IF node.files.nil THEN [h |-> cs.h, m |-> NilMap]
               ELSE deepCopyFiles(cs.h, node.files, MapKeys(node.files),
                                  MakeMap, modTime)
        id == FreshId(fls.h.d)
    IN  [h |-> AllocDir(fls.h, id,
                   MemoryDirNode(node.parent, node.name, cs.m, fls.m,
                                 node.size, modTime)),
         id |-> id]

(***************************************************************************)
(* MemoryDirNode.merge.                                                     *)
(***************************************************************************)
\* mergeInsertChild that counts the inserted directory itself as one byte
mergeInsertChildCounted(h, d, childName, dirChild) ==
    IF h.d[d].children.nil THEN Ret(h, "panic")
    ELSE Ret(SetDir(h, d, [h.d[d] EXCEPT
                 !.children = MapPut(@, childName, dirChild),
                 !.size = @ + DirSize(h, dirChild) + 1,
                 !.modeTime = IF After(h.d[dirChild].modeTime, @)
                              THEN h.d[dirChild].modeTime ELSE @]), "ok")

\* d.children[childName] = dirChild and the bookkeeping that follows it
mergeInsertChild(h, d, childName, dirChild) ==
    IF h.d[d].children.nil THEN Ret(h, "panic")
    ELSE Ret(SetDir(h, d, [h.d[d] EXCEPT
                 !.children = MapPut(@, childName, dirChild),
                 !.size = @ + DirSize(h, dirChild),
                 !.modeTime = IF After(h.d[dirChild].modeTime, @)
                              THEN h.d[dirChild].modeTime ELSE @]), "ok")

\* d.files[fileName] = dirFile and the bookkeeping that follows it
mergeInsertFile(h, d, fileName, dirFile) ==
    IF h.d[d].files.nil THEN Ret(h, "panic")
    ELSE Ret(SetDir(h, d, [h.d[d] EXCEPT
                 !.files = MapPut(@, fileName, dirFile),
                 !.size = @ + FileSize(h, dirFile),
                 !.modeTime = IF After(h.f[dirFile].modeTime, @)
                              THEN h.f[dirFile].modeTime ELSE @]), "ok")

RECURSIVE merge(_, _, _, _, _, _), mergeChildren(_, _, _, _, _, _, _, _)
\* the loop of merge over dir.children
mergeChildren(h, d, dir, overwriteFlag, it, stack, snapshot, done) ==
    LET todo == RangeTodo(h.d[dir].children, snapshot, done, it)
    IN  IF todo = {} THEN Ret(h, "ok")
        ELSE LET childName == NextKey(todo, it)
                 dirChild == h.d[dir].children.m[childName]
                 r == IF MapHas(h.d[d].children, childName)
                      THEN merge(h, h.d[d].children.m[childName], dirChild,
                                 overwriteFlag, it, stack)
                      ELSE mergeInsertChild(h, d, childName, dirChild)
             IN  IF Panicked(r) THEN r
                 ELSE mergeChildren(r.h, d, dir, overwriteFlag, it, stack,
                                    snapshot, done \cup {childName})

\* the loop of merge over dir.files
RECURSIVE mergeFiles(_, _, _, _, _, _, _)
mergeFiles(h, d, dir, overwriteFlag, it, snapshot, done) ==
    LET todo == RangeTodo(h.d[dir].files, snapshot, done, it)
    IN  IF todo = {} THEN Ret(h, "ok")
        ELSE LET fileName == NextKey(todo, it)
                 dirFile == h.d[dir].files.m[fileName]
                 r == IF MapHas(h.d[d].files, fileName)
                      THEN Ret(IF overwriteFlag
                               THEN overwrite(h, h.d[d].files.m[fileName], dirFile)
                               ELSE h, "ok")
                      ELSE mergeInsertFile(h, d, fileName, dirFile)
             IN  IF Panicked(r) THEN r
                 ELSE mergeFiles(r.h, d, dir, overwriteFlag, it, snapshot,
                                 done \cup {fileName})

\* MemoryDirNode.merge; stack holds the calls of merge that are in progress,
\* and a call that is already in progress again never returns
merge(h, d, dir, overwriteFlag, it, stack) ==
    IF h.d[d].name # h.d[dir].name THEN Ret(h, "ok")
    ELSE IF <<d, dir>> \in stack THEN Ret(h, "overflow")
    ELSE LET r == mergeChildren(h, d, dir, overwriteFlag, it,
                                stack \cup {<<d, dir>>},
                                MapKeys(h.d[dir].children), {})
         IN  IF Panicked(r) THEN r
             ELSE mergeFiles(r.h, d, dir, overwriteFlag, it,
                             MapKeys(h.d[dir].files), {})

(***************************************************************************)
(* Operations of MemoryFS.  fs is the MemoryFS record (root, current,       *)
(* caseSensitive), now the reading of time.Now() the call takes.            *)
(***************************************************************************)
\* NewMemoryFS: a root without parent, name, children or files
NewMemoryFS(caseSensitive, now) ==
    [h |-> [d |-> [x \in {1} |-> MemoryDirNode(NilId, EmptyStr, NilMap, NilMap,
                                               0, now)],
            f |-> [x \in {} |-> NilId]],
     fs |-> [root |-> 1, current |-> 1, caseSensitive |-> caseSensitive]]

\* MemoryFS.Delete
DeleteOp(h, fs, path0, now) ==
    LET path == resolve(h, fs, path0)
        loc == locate(h, fs, path, FALSE)
    IN  IF loc.dir # NilId
        THEN IF loc.file # NilId THEN Ret(FileDelete(h, loc.file, now), "ok")
             ELSE IF loc.dir = fs.root THEN Ret(Clean(h, loc.dir, now), "ok")
             ELSE Ret(DirDelete(h, loc.dir, now), "ok")
        ELSE Ret(h, "NotFound")

\* the entries of a map in the order a range loop produces them
RECURSIVE RangeSeq(_, _, _)
RangeSeq(mp, todo, it) ==
    IF todo = {} THEN << >>
    ELSE LET k == NextKey(todo, it)
         IN  <<mp.m[k]>> \o RangeSeq(mp, todo \ {k}, it)

\* ReadDir that also lists the directory itself
ReadDirOpWithSelf(h, fs, dirPath0, it) ==
    LET dirPath == resolve(h, fs, dirPath0)
        loc == locate(h, fs, dirPath, FALSE)
    IN  IF loc.dir = NilId
        THEN [err |-> "NotFound", dirs |-> << >>, files |-> << >>]
        ELSE IF loc.file # NilId
        THEN [err |-> "NotADirectory", dirs |-> << >>, files |-> << >>]
        ELSE [err |-> "ok",
              dirs |-> <<loc.dir>> \o RangeSeq(h.d[loc.dir].children,
                                MapKeys(h.d[loc.dir].children), it),
              files |-> RangeSeq(h.d[loc.dir].files,
                                 MapKeys(h.d[loc.dir].files), it)]

\* MemoryFS.ReadDir: the child directories, then the files, or the error
ReadDirOp(h, fs, dirPath0, it) ==
    LET dirPath == resolve(h, fs, dirPath0)
        loc == locate(h, fs, dirPath, FALSE)
    IN  IF loc.dir = NilId
        THEN [err |-> "NotFound", dirs |-> << >>, files |-> << >>]
        ELSE IF loc.file # NilId
        THEN [err |-> "NotADirectory", dirs |-> << >>, files |-> << >>]
        ELSE [err |-> "ok",
              dirs |-> RangeSeq(h.d[loc.dir].children,
                                MapKeys(h.d[loc.dir].children), it),
              files |-> RangeSeq(h.d[loc.dir].files,
                                 MapKeys(h.d[loc.dir].files), it)]

\* ReadFile that answers an empty text for a directory
ReadFileOpOfDir(h, fs, filePath0, encoding) ==
    IF ~isFilePath(filePath0) THEN [err |-> "NotAFile", text |-> EmptyStr]
    ELSE LET filePath == resolve(h, fs, filePath0)
             loc == locate(h, fs, filePath, FALSE)
         IN  IF loc.dir = NilId THEN [err |-> "NotFound", text |-> EmptyStr]
             ELSE IF loc.file = NilId THEN [err |-> "ok", text |-> EmptyStr]
             ELSE [err |-> "ok", text |-> h.f[loc.file].content]

\* MemoryFS.ReadFile: the content, or the error; encoding is not looked at
ReadFileOp(h, fs, filePath0, encoding) ==
    IF ~isFilePath(filePath0) THEN [err |-> "NotAFile", text |-> EmptyStr]
    ELSE LET filePath == resolve(h, fs, filePath0)
             loc == locate(h, fs, filePath, FALSE)
         IN  IF loc.dir = NilId THEN [err |-> "NotFound", text |-> EmptyStr]
             ELSE IF loc.file = NilId
             THEN [err |-> "NotAFile", text |-> EmptyStr]
             ELSE [err |-> "ok", text |-> h.f[loc.file].content]

\* the branch of WriteFile that overwrites the located file in place
writeExisting(h, file, fileText, now) ==
    LET p == h.f[file].parent
        sizeDiff == Len(fileText) - FileSize(h, file)
        h1 == SetFile(h, file, [h.f[file] EXCEPT !.content = fileText,
                                                 !.modeTime = now])
    IN  SetDir(h1, p, [h1.d[p] EXCEPT !.size = @ + sizeDiff, !.modeTime = now])

\* the branch of WriteFile that creates the file under dir
writeNew(h, dir, filePath, fileText, now) ==
    LET fileName == baseName(filePath)
        id == FreshId(h.f)
        h1 == AllocFile(h, id, MemoryFileNode(dir, fileName, fileText, now))
    IN  IF fileName = EmptyStr THEN Ret(h, "NotAFile")
        ELSE IF h.d[dir].files.nil THEN Ret(h, "panic")
        ELSE Ret(SetDir(h1, dir, [h1.d[dir] EXCEPT
                     !.files = MapPut(@, fileName, id),
                     !.size = @ + Len(fileText),
                     !.modeTime = now]), "ok")

\* MemoryFS.WriteFile
WriteFileOp(h, fs, filePath0, fileText, now) ==
    IF ~isFilePath(filePath0) THEN Ret(h, "NotAFile")
    ELSE LET filePath == resolve(h, fs, filePath0)
             loc == locate(h, fs, filePath, TRUE)
         IN  IF loc.dir = NilId THEN Ret(h, "NotFound")
             ELSE IF loc.file # NilId
             THEN Ret(writeExisting(h, loc.file, fileText, now), "ok")
             ELSE writeNew(h, loc.dir, filePath, fileText, now)

\* what mkdir does with a new node dir for a part that node.children lacks:
\* the node is entered into node.children only when that map is nil
mkdirLink(h, node, dir, now) ==
    IF h.d[node].children.nil
    THEN SetDir(h, node, [h.d[node] EXCEPT
             !.children = MapPut(MakeMap, h.d[dir].name, dir),
             !.modeTime = now])
    ELSE h

\* mkdirFound that stamps the directory it walks through
mkdirFoundTouch(h, node, dir, now) ==
    [h EXCEPT !.d[dir] = [h.d[dir] EXCEPT !.modeTime = now]]

\* what mkdir does to a part that node.children holds: it walks on
mkdirFound(h, node, dir, now) == h

\* the node mkdir makes for a part that node.children lacks
mkdirNode(node, part, now) ==
    MemoryDirNode(node, part, NilMap, NilMap, 0, now)

\* one non-empty part of the loop of MemoryFS.mkdir
mkdirPart(h, node, part, now) ==
    IF MapHas(h.d[node].children, part)
    THEN [h |-> mkdirFound(h, node, h.d[node].children.m[part], now),
          node |-> h.d[node].children.m[part]]
    ELSE LET id == FreshId(h.d)
             h1 == AllocDir(h, id, mkdirNode(node, part, now))
         IN  [h |-> mkdirLink(h1, node, id, now), node |-> id]

\* the loop of MemoryFS.mkdir from part i on
RECURSIVE mkdirFrom(_, _, _, _, _)
mkdirFrom(h, parts, i, node, now) ==
    IF i > Len(parts) THEN [h |-> h, node |-> node]
    ELSE IF parts[i] = EmptyStr THEN mkdirFrom(h, parts, i + 1, node, now)
    ELSE LET r == mkdirPart(h, node, parts[i], now)
         IN  mkdirFrom(r.h, parts, i + 1, r.node, now)

\* MemoryFS.mkdir
mkdir(h, fs, dirPath, now) ==
    mkdirFrom(h, Split(resolve(h, fs, dirPath)), 1, fs.root, now)

\* MemoryFS.Mkdir
MkdirOp(h, fs, dirPath, now) == Ret(mkdir(h, fs, dirPath, now).h, "ok")

\* the file branch of MemoryFS.copy
copyFile(h, fs, srcFile, isSrcDir, isDestDir, destPath, remove, now) ==
    LET loc == locate(h, fs, destPath, FALSE)
        made == IF loc.dir = NilId THEN mkdir(h, fs, destPath, now)
                ELSE [h |-> h, node |-> loc.dir]
        h1 == made.h
        destDir == made.node
        id == FreshId(h1.f)
        h2 == AllocFile(h1, id, MemoryFileNode(destDir, h1.f[srcFile].name,
                                               h1.f[srcFile].content, now))
        sizeDiff == FileSize(h1, srcFile) - FileSize(h1, loc.file)
        h3 == IF loc.file = NilId
              THEN SetDir(h2, destDir, [h2.d[destDir] EXCEPT
                       !.files = MapPut(@, h1.f[srcFile].name, id),
                       !.size = @ + FileSize(h1, srcFile)])
              ELSE LET g == SetFile(h1, loc.file, [h1.f[loc.file] EXCEPT
                                !.content = h1.f[srcFile].content,
                                !.modeTime = now])
                   IN  SetDir(g, destDir, [g.d[destDir] EXCEPT
                                               !.size = @ + sizeDiff])
        h4 == SetDir(h3, destDir, [h3.d[destDir] EXCEPT !.modeTime = now])
    IN  IF isSrcDir THEN Ret(h, "NotFound")
        ELSE IF loc.file # NilId /\ isDestDir THEN Ret(h, "NotADirectory")
        ELSE IF loc.file = NilId /\ h1.d[destDir].files.nil
        THEN Ret(h, "panic")
        ELSE Ret(IF remove THEN FileDelete(h4, srcFile, now) ELSE h4, "ok")

\* the directory branch of MemoryFS.copy
copyDir(h, fs, srcDir0, destPath, remove, now, it) ==
    LET loc == locate(h, fs, destPath, FALSE)
        made == IF loc.dir = NilId THEN mkdir(h, fs, destPath, now)
                ELSE [h |-> h, node |-> loc.dir]
        destDir == made.node
        copied == IF remove THEN [h |-> made.h, id |-> srcDir0]
                  ELSE deepCopy(made.h, srcDir0, now)
        r == merge(copied.h, destDir, copied.id, TRUE, it, {})
    IN  IF loc.file # NilId THEN Ret(h, "NotADirectory")
        ELSE IF ~remove /\ HasCycle(made.h, srcDir0) THEN Ret(h, "overflow")
        ELSE IF Panicked(r) THEN Ret(h, r.err)
        ELSE Ret(IF remove THEN DirDelete(r.h, copied.id, now) ELSE r.h, "ok")

\* copy that makes the destination directory before it looks for the source
copyOpMkdirFirst(h, fs, srcPath0, destPath0, remove, now, it) ==
    LET isSrcDir == HasSuffixSep(srcPath0)
        isDestDir == HasSuffixSep(destPath0)
        srcPath == resolve(h, fs, srcPath0)
        destPath == resolve(h, fs, destPath0)
        h1 == mkdir(h, fs, destPath, now).h
        src == locate(h1, fs, srcPath, FALSE)
    IN  IF src.dir = NilId THEN Ret(h1, "NotFound")
        ELSE IF src.file # NilId
        THEN copyFile(h1, fs, src.file, isSrcDir, isDestDir, destPath, remove,
                      now)
        ELSE copyDir(h1, fs, src.dir, destPath, remove, now, it)

\* MemoryFS.copy
copyOp(h, fs, srcPath0, destPath0, remove, now, it) ==
    LET isSrcDir == HasSuffixSep(srcPath0)
        isDestDir == HasSuffixSep(destPath0)
        srcPath == resolve(h, fs, srcPath0)
        destPath == resolve(h, fs, destPath0)
        src == locate(h, fs, srcPath, FALSE)
    IN  IF src.dir = NilId THEN Ret(h, "NotFound")
        ELSE IF src.file # NilId
        THEN copyFile(h, fs, src.file, isSrcDir, isDestDir, destPath, remove,
                      now)
        ELSE copyDir(h, fs, src.dir, destPath, remove, now, it)

\* MemoryFS.Move
MoveOp(h, fs, srcPath, destPath, now, it) ==
    copyOp(h, fs, srcPath, destPath, TRUE, now, it)

\* MemoryFS.Copy
CopyOp(h, fs, srcPath, destPath, now, it) ==
    copyOp(h, fs, srcPath, destPath, FALSE, now, it)

\* FileExists that reports whatever locate finds at the path
FileExistsAnyEntry(h, fs, filePath) ==
    locate(h, fs, resolve(h, fs, filePath), FALSE).dir # NilId

\* MemoryFS.FileExists
FileExists(h, fs, filePath) ==
    IF ~isFilePath(filePath) THEN FALSE
    ELSE locate(h, fs, resolve(h, fs, filePath), FALSE).file # NilId

\* MemoryFS.DirectoryExists
DirectoryExists(h, fs, dirPath) ==
    LET loc == locate(h, fs, resolve(h, fs, dirPath), FALSE)
    IN  loc.dir # NilId /\ loc.file = NilId

(***************************************************************************)
(* Glob.  A pattern is split at "/"; a part without pattern characters is   *)
(* looked up by name, any other part is compiled by glob.Compile and        *)
(* matched against the names of the node's entries.  Of the pattern syntax  *)
(* the model has the characters its inputs use: "*" (any run of             *)
(* characters), "?" (any one character), literals, and "[", which opens a   *)
(* character class and does not compile without its closing "]".            *)
(***************************************************************************)
\* isNotPattern of memory.go
isNotPattern(part) ==
    \A i \in 1..Len(part) : part[i] \notin {"?", "*", "[", "{", "\\"}

\* glob.Compile(part) returns no error
Compiles(part) ==
    \A i \in 1..Len(part) :
        part[i] = "[" => \E j \in (i + 1)..Len(part) : part[j] = "]"

\* g.Match(name) for the glob g compiled from part
RECURSIVE Match(_, _)
Match(part, name) ==
    IF part = EmptyStr THEN name = EmptyStr
    ELSE IF Head(part) = "*"
    THEN \E n \in 0..Len(name) :
            Match(Tail(part), SubSeq(name, n + 1, Len(name)))
    ELSE IF name = EmptyStr THEN FALSE
    ELSE IF Head(part) = "?" \/ Head(part) = Head(name)
    THEN Match(Tail(part), Tail(name))
    ELSE FALSE

\* a result of _glob, glob and Glob: the paths, or the error
GlobRet(err, paths) == [err |-> err, paths |-> paths]

RECURSIVE globFrom(_, _, _, _, _), globChildren(_, _, _, _, _, _, _)
\* the loop of _glob over node.children for the pattern part parts[i]
globChildren(h, node, parts, i, it, todo, acc) ==
    IF todo = {} THEN GlobRet("ok", acc)
    ELSE LET childName == NextKey(todo, it)
             res == IF Match(parts[i], childName)
                    THEN globFrom(h, h.d[node].children.m[childName],
                                  SubSeq(parts, i + 1, Len(parts)), 1, it)
                    ELSE GlobRet("ok", << >>)
         IN  IF res.err # "ok" THEN GlobRet(res.err, << >>)
             ELSE globChildren(h, node, parts, i, it, todo \ {childName},
                               acc \o res.paths)

\* the loop of _glob over node.files for the pattern part
RECURSIVE globFiles(_, _, _, _, _)
globFiles(h, node, part, it, todo) ==
    IF todo = {} THEN << >>
    ELSE LET fileName == NextKey(todo, it)
         IN  (IF Match(part, fileName)
              THEN <<FileFullPath(h, h.d[node].files.m[fileName])>>
              ELSE << >>)
             \o globFiles(h, node, part, it, todo \ {fileName})

\* MemoryFS._glob: the loop over parts from part i on
globFrom(h, node, parts, i, it) ==
    IF i > Len(parts) THEN GlobRet("ok", << >>)
    ELSE LET part == parts[i]
         IN  IF part = EmptyStr THEN globFrom(h, node, parts, i + 1, it)
             ELSE IF isNotPattern(part)
             THEN IF MapHas(h.d[node].children, part)
                  THEN globFrom(h, h.d[node].children.m[part], parts, i + 1,
                                it)
                  ELSE IF MapHas(h.d[node].files, part) /\ i = Len(parts)
                  THEN GlobRet("ok",
                           <<FileFullPath(h, h.d[node].files.m[part])>>)
                  ELSE GlobRet("ok", << >>)
             ELSE IF ~Compiles(part) THEN GlobRet("PatternError", << >>)
             ELSE LET cs == globChildren(h, node, parts, i, it,
                                         MapKeys(h.d[node].children), << >>)
                  IN  IF cs.err # "ok" THEN cs
                      ELSE GlobRet("ok", cs.paths
                               \o globFiles(h, node, part, it,
                                            MapKeys(h.d[node].files)))

\* MemoryFS.glob
glob(h, fs, pattern0, it) ==
    LET pattern == TrimSuffixSeps(pattern0)
        node == IF HasPrefixSep(pattern) THEN fs.root ELSE fs.current
    IN  globFrom(h, node, Split(pattern), 1, it)

\* Glob that returns the error of its first pattern only
RECURSIVE GlobOpFirstError(_, _, _, _)
GlobOpFirstError(h, fs, patterns, it) ==
    IF patterns = << >> THEN GlobRet("ok", << >>)
    ELSE LET res == glob(h, fs, Head(patterns), it)
             rest == GlobOpFirstError(h, fs, Tail(patterns), it)
         IN  IF res.err # "ok" THEN GlobRet(res.err, << >>)
             ELSE GlobRet("ok", res.paths \o rest.paths)

\* MemoryFS.Glob
RECURSIVE GlobOp(_, _, _, _)
GlobOp(h, fs, patterns, it) ==
    IF patterns = << >> THEN GlobRet("ok", << >>)
    ELSE LET res == glob(h, fs, Head(patterns), it)
             rest == GlobOp(h, fs, Tail(patterns), it)
         IN  IF res.err # "ok" THEN GlobRet(res.err, << >>)
             ELSE IF rest.err # "ok" THEN GlobRet(rest.err, << >>)
             ELSE GlobRet("ok", res.paths \o rest.paths)

(***************************************************************************)
(* Nodes the program can still reach: from the root through child and file  *)
(* mappings and through parent back-references.  The rest is garbage.       *)
(***************************************************************************)
FilesOf(h, S) ==
    UNION {{h.d[x].files.m[k] : k \in MapKeys(h.d[x].files)} : x \in S}

LiveDirs(h, root) ==
    LET RECURSIVE Grow(_)
        Grow(S) ==
            LET T == S
                     \cup UNION {{h.d[x].children.m[k] :
                                     k \in MapKeys(h.d[x].children)} : x \in S}
                     \cup ({h.d[x].parent : x \in S} \ {NilId})
                     \cup ({h.f[f].parent : f \in FilesOf(h, S)} \ {NilId})
            IN  IF T = S THEN S ELSE Grow(T)
    IN  Grow({root})

\* the heap without garbage
Collect(h, root) ==
    LET D == LiveDirs(h, root)
        F == FilesOf(h, D)
    IN  [d |-> [x \in D |-> h.d[x]], f |-> [x \in F |-> h.f[x]]]

NodeCount(h) == Cardinality(DOMAIN h.d) + Cardinality(DOMAIN h.f)

(***************************************************************************)
(* SandboxFS of sandbox.go: root is an absolute slash path on the host,     *)
(* current an absolute slash path inside the sandbox.                       *)
(***************************************************************************)
\* &SandboxFS{root, current}
SandboxFS(root, current) == [root |-> root, current |-> current]

\* what resolveOsPath returns: a host path and nil, or "" and an error
OsPath(err, path) == [err |-> err, path |-> path]

\* SandboxFS.resolveOsPath
RECURSIVE resolveOsPath(_, _)
resolveOsPath(s, path0) ==
    LET path == ToSlash(path0)
    IN  IF HasPrefixSep(path)
        THEN OsPath("ok", pathJoin(s.root, cleanHeadSlash(path)))
        ELSE LET current == resolveOsPath(s, s.current).path
                 joined == pathJoin(current, path)
             IN  IF HasPrefix(s.root, joined)
                 THEN OsPath("OutOfSandbox", EmptyStr)
                 ELSE OsPath("ok", joined)

(***************************************************************************)
(* Values of utils.go: MakeValue and ParseValue between Go values and the   *)
(* values of the script engine.  A Go int is 64 bits wide (the comparison   *)
(* with math.MaxUint32 compiles on no other build); it is written           *)
(* <<hi, mid, lo>> for hi * 2^32 + mid * 2^16 + lo, hi the upper 32 bits as *)
(* a signed number, mid and lo the lower two 16-bit halves.  A count of     *)
(* milliseconds is written in groups of three decimal digits,               *)
(* <<top, g2, g1, g0, milli>> for (((top * 1000 + g2) * 1000 + g1) * 1000   *)
(* + g0) * 1000 + milli, top signed and every other group in 0..999.  A Go  *)
(* string is its sequence of bytes, a script string its sequence of code    *)
(* points.                                                                  *)
(***************************************************************************)
\* a <= b for two 64-bit integers
Leq(a, b) ==
    \/ a[1] < b[1]
    \/ a[1] = b[1] /\ a[2] < b[2]
    \/ a[1] = b[1] /\ a[2] = b[2] /\ a[3] <= b[3]

\* math.MaxUint32 and math.MinInt32 as 64-bit integers, and 0
MaxUint32 == <<0, 65535, 65535>>

MinInt32 == <<-1, 32768, 0>>

Zero == <<0, 0, 0>>

\* uint32(v): the lower 32 bits of v as an unsigned number
uint32(v) == <<0, v[2], v[3]>>

\* int32(v): the lower 32 bits of v as a signed number
int32(v) == <<IF v[2] >= 32768 THEN -1 ELSE 0, v[2], v[3]>>

\* a value of the script engine: null, a Number, a BigInt, a Boolean, a
\* String or a Date; v is the payload its kind has
Value(kind, v) == [kind |-> kind, v |-> v]

Null == Value("Null", Zero)

\* Value.IsUint32, Value.IsInt32, Value.IsBigInt, Value.IsNull
IsUint32(val) == val.kind = "Number" /\ val.v[1] = 0

IsInt32(val) == val.kind = "Number" /\ val.v = int32(val.v)

IsBigInt(val) == val.kind = "BigInt"

IsNull(val) == val.kind = "Null"

\* the int case of MakeValue with no lower end of the int32 range
makeIntUnbounded(v) ==
    IF Leq(Zero, v) /\ Leq(v, MaxUint32) THEN Value("Number", uint32(v))
    ELSE IF ~Leq(Zero, v) THEN Value("Number", int32(v))
    ELSE Value("BigInt", v)

\* the int case of MakeValue: v8go.NewValue on a uint32 and on an int32
\* makes a Number, on an int64 a BigInt
makeInt(v) ==
    IF Leq(Zero, v) /\ Leq(v, MaxUint32) THEN Value("Number", uint32(v))
    ELSE IF ~Leq(Zero, v) /\ Leq(MinInt32, v) THEN Value("Number", int32(v))
    ELSE Value("BigInt", v)

\* String::NewFromUtf8, as v8go.NewValue calls it on a Go string: every
\* well-formed sequence of one to four bytes is its code point, every
\* longest ill-formed run that starts a sequence is U+FFFD
RECURSIVE Utf8Decode(_)
Utf8Decode(b) ==
    IF b = << >> THEN << >>
    ELSE LET b0 == b[1]
             need == IF b0 < 128 THEN 1
                     ELSE IF b0 >= 194 /\ b0 <= 223 THEN 2
                     ELSE IF b0 >= 224 /\ b0 <= 239 THEN 3
                     ELSE IF b0 >= 240 /\ b0 <= 244 THEN 4
                     ELSE 0
             low2 == IF b0 = 224 THEN 160 ELSE IF b0 = 240 THEN 144 ELSE 128
             high2 == IF b0 = 237 THEN 159 ELSE IF b0 = 244 THEN 143 ELSE 191
             Fits(i) ==
                 /\ i <= Len(b)
                 /\ IF i = 2 THEN b[i] >= low2 /\ b[i] <= high2
                    ELSE b[i] >= 128 /\ b[i] <= 191
             RECURSIVE Run(_)
             Run(i) == IF i <= need /\ Fits(i) THEN Run(i + 1) ELSE i - 1
             got == IF need = 0 THEN 1 ELSE Run(2)
             RECURSIVE Bits(_, _)
             Bits(i, acc) ==
                 IF i > need THEN acc ELSE Bits(i + 1, acc * 64 + (b[i] - 128))
             lead == IF need = 1 THEN b0
                     ELSE IF need = 2 THEN b0 - 192
                     ELSE IF need = 3 THEN b0 - 224
                     ELSE b0 - 240
         IN  IF need > 0 /\ got = need
             THEN <<Bits(2, lead)>> \o Utf8Decode(SubSeq(b, need + 1, Len(b)))
             ELSE <<65533>> \o Utf8Decode(SubSeq(b, got + 1, Len(b)))

\* String::Utf8Value, as Value.String calls it: the bytes of every code point
RECURSIVE Utf8Encode(_)
Utf8Encode(s) ==
    IF s = << >> THEN << >>
    ELSE LET c == s[1]
             bytes ==
                 IF c < 128 THEN <<c>>
                 ELSE IF c < 2048 THEN <<192 + (c \div 64), 128 + (c % 64)>>
                 ELSE IF c < 65536
                 THEN <<224 + (c \div 4096), 128 + ((c \div 64) % 64), 128 + (c % 64)>>
                 ELSE <<240 + (c \div 262144), 128 + ((c \div 4096) % 64),
                        128 + ((c \div 64) % 64), 128 + (c % 64)>>
         IN  bytes \o Utf8Encode(Tail(s))

\* a time.Time: seconds since the epoch, in groups, and nanoseconds
Time(sec, nsec) == [sec |-> sec, nsec |-> nsec]

\* Time.UnixMilli: sec * 1000 + nsec / 1000000
UnixMilli(t) == t.sec \o <<t.nsec \div 1000000>>

\* time.UnixMilli: the time of a count of milliseconds
timeUnixSeconds(ms) == Time(SubSeq(ms, 1, 4), 0)

timeUnixMilli(ms) == Time(SubSeq(ms, 1, 4), ms[5] * 1000000)

\* "new Date(%d)" run as a script: the number of the literal, which is exact
\* up to 2^53, or NaN when it is beyond 8,640,000,000,000,000 on either side
NewDate(ms) ==
    LET inRange ==
            /\ ms[1] >= -8640
            /\ \/ ms[1] < 8640
               \/ ms[1] = 8640 /\ \A i \in 2..5 : ms[i] = 0
    IN  Value("Date", [nan |-> ~inRange, ms |-> ms])

\* dateGetTime: getTime() of the date as an integer; Integer() of NaN is 0
dateGetTime(val) == IF val.v.nan THEN <<0, 0, 0, 0, 0>> ELSE val.v.ms

\* a Go value handed to MakeValue: nil says that it is a nil interface or a
\* nil pointer
GoValue(type, nil, v) == [type |-> type, nil |-> nil, v |-> v]

\* MakeValue on nil, a string, a bool, an int, a *int and a time.Time
MakeValue(goVal) ==
    IF goVal.nil THEN Null
    ELSE CASE goVal.type = "string" -> Value("String", Utf8Decode(goVal.v))
           [] goVal.type = "bool" -> Value("Boolean", goVal.v)
           [] goVal.type \in {"int", "*int"} -> makeInt(goVal.v)
           [] goVal.type = "time.Time" -> NewDate(UnixMilli(goVal.v))

\* what ParseValue leaves: its error and the value of *out
Parsed(err, v) == [err |-> err, v |-> v]

\* ParseValue into out, a *string, *bool or *time.Time that holds old
ParseValue(val, out, old) ==
    IF IsNull(val) THEN Parsed("ok", old)
    ELSE CASE out = "*bool" ->
                IF val.kind # "Boolean" THEN Parsed("NotBoolean", old)
                ELSE Parsed("ok", val.v)
           [] out = "*string" ->
                IF val.kind # "String" THEN Parsed("NotString", old)
                ELSE Parsed("ok", Utf8Encode(val.v))
           [] out = "*time.Time" ->
                IF val.kind # "Date" THEN Parsed("NotDate", old)
                ELSE Parsed("ok", timeUnixMilli(dateGetTime(val)))

(***************************************************************************)
(* Inputs.                                                                  *)
(***************************************************************************)
Paths ==
    { EmptyStr,
      <<"/">>,
      <<"a">>,
      <<"/", "a">>,
      <<"/", "a", "/">>,
      <<"/", "A">>,
      <<"/", "b">>,
      <<"/", "a", "/", "a">>,
      <<"/", "a", "/", "b">>,
      <<"/", "a", "/", "a", "/", "b">> }

Texts == UNION {[1..n -> {"x"}] : n \in 0..MaxText}

\* encoding tokens handed to ReadFile
Encodings == {"utf8", "utf-8", "latin1"}

\* glob patterns: by name, and with a part that does not compile, alone,
\* after a name (relative to the current directory) and after a wildcard
\* part that may match nothing
Patterns ==
    { <<"/", "a">>,
      <<"/", "[">>,
      <<"b", "/", "[">>,
      <<"/", "*", "/", "[">> }

\* the iterations a Glob call can tell apart: it adds no entry to any map,
\* and a map with at most one entry is ranged over in one order only
GlobIterations(h) ==
    IF \A d \in DOMAIN h.d :
           /\ Cardinality(MapKeys(h.d[d].children)) <= 1
           /\ Cardinality(MapKeys(h.d[d].files)) <= 1
    THEN {[desc |-> FALSE, seeNew |-> FALSE]}
    ELSE {it \in Iterations : ~it.seeNew}

\* the pattern lists handed to Glob
PatternLists == UNION {[1..n -> Patterns] : n \in 0..MaxPatterns}

\* inputs of Realpath: the paths above and strings with repeated and
\* trailing separators, relative and absolute, in both letter cases
RealPaths ==
    Paths \cup { <<"/", "/">>,
                 <<"a", "/", "/">>,
                 <<"A", "/">>,
                 <<"/", "a", "/", "/", "b">>,
                 <<"a", "/", "/", "B", "/", "/">>,
                 <<"/", "/", "a">> }

\* directories nested one level deeper than Paths reach
NestPaths ==
    { <<"/", "a">>,
      <<"/", "a", "/", "a">>,
      <<"/", "a", "/", "b">>,
      <<"/", "a", "/", "a", "/", "b">>,
      <<"/", "a", "/", "b", "/", "b">>,
      <<"/", "a", "/", "b", "/", "b", "/", "a">> }

\* host roots of a sandbox
SandboxRoots ==
    { <<"/", "d">>,
      <<"/", "d", "/", "e">> }

\* current directories of a sandbox
SandboxCurrents ==
    { <<"/">>,
      <<"/", "s">>,
      <<"/", "s", "/", "t">> }

\* paths handed to the sandbox: absolute and relative, with "." and ".."
\* elements, repeated separators, and the name of a sibling of the root
SandboxPaths ==
    { EmptyStr,
      <<"/">>,
      <<".">>,
      <<"x">>,
      <<"/", "x">>,
      <<"/", "/", "x", "/">>,
      <<"x", "/", ".", "/", "y">>,
      <<".", ".">>,
      <<"/", ".", ".">>,
      <<".", ".", "/", "x">>,
      <<"/", ".", ".", "/", "x">>,
      <<"x", "/", ".", ".", "/", "y">>,
      <<"x", "/", ".", ".", "/", ".", ".">>,
      <<".", ".", "/", ".", ".">>,
      <<".", ".", "/", ".", ".", "/", ".", ".">>,
      <<".", ".", "/", "d", "2">>,
      <<"/", ".", ".", "/", "d", "2">>,
      <<".", ".", "/", ".", ".", "/", "d", "2">>,
      <<".", ".", "/", ".", ".", "/", "d", "/", "e", "/", "x">> }

\* paths handed to the asynchronous bindings
AsyncPaths ==
    { <<"/">>,
      <<"/", "a">>,
      <<"/", "a", "/", "b">> }

\* paths handed to the mkdir calls that run at once
RacePaths ==
    { <<"/", "a">>,
      <<"/", "b">>,
      <<"a", "/", "b">> }

\* the ints handed to MakeValue: around 0, 2^31, 2^32 and the ends of the
\* int32 and uint32 ranges, and far from them
GoInts ==
    {<<hi, mid, lo>> : hi \in {-2147483647, -2, -1, 0, 1, 2147483647},
                       mid \in {0, 32767, 32768, 65535},
                       lo \in {0, 1, 65535}}

\* the strings handed to MakeValue, over the bytes of "a", of the two-byte
\* and three-byte sequences C3 A9 and E2 82 AC, and the byte FF
GoStrings ==
    UNION {[1..n -> {97, 195, 169, 226, 130, 172, 255}] : n \in 0..MaxBytes}

\* the times handed to MakeValue: around the epoch, today, and around the
\* year 275760 on either side
GoTimes ==
    {Time(<<top, g, g, g0>>, nsec) :
        top \in {-100000, -8641, -8640, -1, 0, 1, 8639, 8640, 100000},
        g \in {0, 999}, g0 \in {0, 1},
        nsec \in {0, 999999, 1000000, 999999999}}

\* the asynchronous bindings of filesystem.go
AsyncOps ==
    {"copy", "delete", "directoryExists", "fileExists", "glob", "mkdir",
     "move", "readFile", "writeFile"}

(***************************************************************************)
(* Range loops whose outcome no iteration order can change.  merge(d, dir)  *)
(* only reads the maps below dir and only writes the maps below d.  When    *)
(* the two subgraphs share no node, each directory below d is reached along *)
(* one path only, and dir holds no files, every (directory, key) pair is    *)
(* handled once, no loop runs over a map that is written, and the size and  *)
(* time updates commute: one iteration stands for all.                      *)
(***************************************************************************)
Plain == [desc |-> FALSE, seeNew |-> FALSE]

\* every directory below d is held by one entry of one directory below d
IsTree(h, d) ==
    LET D == DirReach(h, d)
        Holders(x) == {<<y, k>> \in D \X UNION {MapKeys(h.d[y].children) : y \in D} :
                          MapHas(h.d[y].children, k) /\ h.d[y].children.m[k] = x}
    IN  /\ Holders(d) = {}
        /\ \A x \in D \ {d} : Cardinality(Holders(x)) = 1

\* the iterations a call of copy(srcPath, destPath, remove) can tell apart
copyIterations(h, fs, srcPath, destPath, remove) ==
    LET src == locate(h, fs, resolve(h, fs, srcPath), FALSE)
        dst == locate(h, fs, resolve(h, fs, destPath), FALSE)
    IN  IF src.dir = NilId \/ src.file # NilId \/ dst.file # NilId
           \/ dst.dir = NilId
        THEN {Plain}
        ELSE IF /\ IsTree(h, dst.dir)
                /\ FilesOf(h, DirReach(h, src.dir)) = {}
                /\ ~remove \/ DirReach(h, src.dir) \cap DirReach(h, dst.dir) = {}
        THEN {Plain}
        ELSE Iterations

(***************************************************************************)
(* The state machine.  A call is made when the caller is idle; last then    *)
(* records the call (operation, arguments) and how it ended, until the      *)
(* caller takes the result (Return).  A call that panics ends the process.  *)
(***************************************************************************)
Call(op, path, dest, text) ==
    [op |-> op, path |-> path, dest |-> dest, text |-> text, encoding |-> "",
     patterns |-> << >>]

\* last.out is the string a read-only call returned
NoCall ==
    [call |-> Call("none", EmptyStr, EmptyStr, EmptyStr), err |-> "ok",
     out |-> EmptyStr]

\* no sandbox call is under way
NoPath == <<"none">>

\* the sandbox when the program works on the memory filesystem only
NoSandbox ==
    [fs |-> SandboxFS(Sep, Sep), path |-> NoPath, ret |-> OsPath("ok", EmptyStr)]

\* a conversion under way: the Go value in, the script value made of it, and
\* what ParseValue left in the variable it was given
Conversion(pc, in, made, out) ==
    [pc |-> pc, in |-> in, made |-> made, out |-> out]

\* no conversion is under way
NoValue == Conversion("idle", GoValue("nil", TRUE, Zero), Null, Parsed("ok", Zero))

\* no goroutine is running
NoFrames == << >>

Init ==
    /\ clock = 0
    /\ \E cs \in BOOLEAN :
          LET n == NewMemoryFS(cs, 0)
          IN  heap = n.h /\ fsys = n.fs
    /\ last = NoCall
    /\ sandbox = NoSandbox
    /\ promises = << >>
    /\ value = NoValue
    /\ frames = NoFrames

Idle == last = NoCall

Running == ~Panicked(last)

\* the effect of a call that ended with result r
FinishWithin(call, r, maxNodes) ==
    LET h == Collect(r.h, fsys.root)
    IN  /\ Panicked(r) \/ NodeCount(h) <= maxNodes
        /\ heap' = IF Panicked(r) THEN heap ELSE h
        /\ last' = [call |-> call, err |-> r.err, out |-> EmptyStr]
        /\ UNCHANGED <<fsys, clock, sandbox, promises, value, frames>>

Finish(call, r) == FinishWithin(call, r, MaxNodes)

\* a read that stamps the current directory with the time of the access
AnswerTouch(call, err, out) ==
    /\ last' = [call |-> call, err |-> err, out |-> out]
    /\ heap' = SetDir(heap, fsys.current,
                      [heap.d[fsys.current] EXCEPT !.modeTime = clock + 1])
    /\ UNCHANGED <<fsys, clock, sandbox, promises, value, frames>>

\* the effect of a call that only reads: it answers err and out
Answer(call, err, out) ==
    /\ last' = [call |-> call, err |-> err, out |-> out]
    /\ UNCHANGED <<heap, fsys, clock, sandbox, promises, value, frames>>

\* the caller takes the result of the call
Return ==
    /\ ~Idle
    /\ Running
    /\ last' = NoCall
    /\ UNCHANGED <<heap, fsys, clock, sandbox, promises, value, frames>>

\* time passes between calls
Tick ==
    /\ Idle
    /\ clock < MaxClock
    /\ clock' = clock + 1
    /\ UNCHANGED <<heap, fsys, last, sandbox, promises, value, frames>>

WriteFile ==
    /\ Idle
    /\ \E p \in Paths, t \in Texts :
           Finish(Call("WriteFile", p, EmptyStr, t),
                  WriteFileOp(heap, fsys, p, t, clock))

Mkdir ==
    /\ Idle
    /\ \E p \in Paths :
           Finish(Call("Mkdir", p, EmptyStr, EmptyStr),
                  MkdirOp(heap, fsys, p, clock))

Delete ==
    /\ Idle
    /\ \E p \in Paths :
           Finish(Call("Delete", p, EmptyStr, EmptyStr),
                  DeleteOp(heap, fsys, p, clock))

Copy ==
    /\ Idle
    /\ \E p \in Paths, q \in Paths :
           \E it \in copyIterations(heap, fsys, p, q, FALSE) :
               Finish(Call("Copy", p, q, EmptyStr),
                      CopyOp(heap, fsys, p, q, clock, it))

Move ==
    /\ Idle
    /\ \E p \in Paths, q \in Paths :
           \E it \in copyIterations(heap, fsys, p, q, TRUE) :
               Finish(Call("Move", p, q, EmptyStr),
                      MoveOp(heap, fsys, p, q, clock, it))

ReadFile ==
    /\ Idle
    /\ \E p \in Paths, enc \in Encodings :
           LET r == ReadFileOp(heap, fsys, p, enc)
           IN  Answer([Call("ReadFile", p, EmptyStr, EmptyStr)
                          EXCEPT !.encoding = enc], r.err, r.text)

\* the records ReadDir returns: one for each node of its result, in order
FileInfos(r) ==
    [i \in 1..Len(r.dirs) |-> [isDir |-> TRUE, node |-> r.dirs[i]]]
    \o [i \in 1..Len(r.files) |-> [isDir |-> FALSE, node |-> r.files[i]]]

ReadDir ==
    /\ Idle
    /\ \E p \in Paths, it \in Iterations :
           LET r == ReadDirOp(heap, fsys, p, it)
           IN  Answer(Call("ReadDir", p, EmptyStr, EmptyStr), r.err,
                      FileInfos(r))

\* the FileExists call; the answer is a one-element sequence holding the bool
FileExistsCall ==
    /\ Idle
    /\ \E p \in Paths :
           Answer(Call("FileExists", p, EmptyStr, EmptyStr), "ok",
                  <<FileExists(heap, fsys, p)>>)

\* the DirectoryExists call
DirectoryExistsCall ==
    /\ Idle
    /\ \E p \in Paths :
           Answer(Call("DirectoryExists", p, EmptyStr, EmptyStr), "ok",
                  <<DirectoryExists(heap, fsys, p)>>)

Glob ==
    /\ Idle
    /\ \E ps \in PatternLists, it \in GlobIterations(heap) :
           LET r == GlobOp(heap, fsys, ps, it)
           IN  Answer([Call("Glob", EmptyStr, EmptyStr, EmptyStr)
                          EXCEPT !.patterns = ps], r.err, r.paths)

GetCurrentDirectory ==
    /\ Idle
    /\ Answer(Call("GetCurrentDirectory", EmptyStr, EmptyStr, EmptyStr), "ok",
              DirFullPath(heap, fsys.current))

Realpath ==
    /\ Idle
    /\ \E p \in RealPaths :
           Answer(Call("Realpath", p, EmptyStr, EmptyStr), "ok",
                  resolve(heap, fsys, p))

Next ==
    \/ Tick \/ Return \/ WriteFile \/ Mkdir \/ Delete \/ Copy \/ Move
    \/ ReadFile \/ Realpath \/ ReadDir \/ FileExistsCall \/ DirectoryExistsCall
    \/ Glob \/ GetCurrentDirectory

Spec == Init /\ [][Next]_vars

(***************************************************************************)
(* The memory filesystem with directories nested one level deeper: Mkdir,   *)
(* Delete, Copy and Move on NestPaths.                                      *)
(***************************************************************************)
NestMkdir ==
    /\ Idle
    /\ \E p \in NestPaths :
           FinishWithin(Call("Mkdir", p, EmptyStr, EmptyStr),
                        MkdirOp(heap, fsys, p, clock), MaxNest)

NestDelete ==
    /\ Idle
    /\ \E p \in NestPaths :
           FinishWithin(Call("Delete", p, EmptyStr, EmptyStr),
                        DeleteOp(heap, fsys, p, clock), MaxNest)

NestCopy ==
    /\ Idle
    /\ \E p \in NestPaths, q \in NestPaths :
           \E it \in copyIterations(heap, fsys, p, q, FALSE) :
               FinishWithin(Call("Copy", p, q, EmptyStr),
                            CopyOp(heap, fsys, p, q, clock, it), MaxNest)

NestMove ==
    /\ Idle
    /\ \E p \in NestPaths, q \in NestPaths :
           \E it \in copyIterations(heap, fsys, p, q, TRUE) :
               FinishWithin(Call("Move", p, q, EmptyStr),
                            MoveOp(heap, fsys, p, q, clock, it), MaxNest)

NestNext == NestMkdir \/ NestDelete \/ NestCopy \/ NestMove \/ Return

NestSpec == Init /\ [][NestNext]_vars

(***************************************************************************)
(* The sandbox: a SandboxFS with any of the roots and current directories,  *)
(* and calls of its path resolver.                                          *)
(***************************************************************************)
SandboxInit ==
    /\ clock = 0
    /\ heap = NewMemoryFS(TRUE, 0).h
    /\ fsys = NewMemoryFS(TRUE, 0).fs
    /\ last = NoCall
    /\ promises = << >>
    /\ value = NoValue
    /\ frames = NoFrames
    /\ \E root \in SandboxRoots, current \in SandboxCurrents :
           sandbox = [fs |-> SandboxFS(root, current), path |-> NoPath,
                      ret |-> OsPath("ok", EmptyStr)]

\* one call of resolveOsPath
ResolveOsPath ==
    /\ sandbox.path = NoPath
    /\ \E path \in SandboxPaths :
           sandbox' = [sandbox EXCEPT !.path = path,
                                      !.ret = resolveOsPath(sandbox.fs, path)]
    /\ UNCHANGED <<heap, fsys, clock, last, promises, value, frames>>

\* the caller takes the host path or the error
SandboxReturn ==
    /\ sandbox.path # NoPath
    /\ sandbox' = [sandbox EXCEPT !.path = NoPath,
                                  !.ret = OsPath("ok", EmptyStr)]
    /\ UNCHANGED <<heap, fsys, clock, last, promises, value, frames>>

SandboxNext == ResolveOsPath \/ SandboxReturn

SandboxSpec == SandboxInit /\ [][SandboxNext]_vars

(***************************************************************************)
(* The asynchronous bindings of filesystem.go.  A call makes a promise and, *)
(* when its arguments are strings, starts a goroutine (the worker) that     *)
(* runs the operation and then settles the promise.  Workers of different   *)
(* calls run in any order.  A panic in a worker ends the process.           *)
(***************************************************************************)
\* the promise of one call: the call, whether its arguments were extracted,
\* the state of the promise, how often it was settled, where its worker
\* is, and what the operation returned
Promise(call, args, state, settled, worker) ==
    [call |-> call, args |-> args, state |-> state, settled |-> settled,
     worker |-> worker, err |-> "ok", out |-> EmptyStr]

\* what a worker's operation returns: the heap, the error and the result;
\* here for an operation that has no result but its error
unit(r) == [h |-> r.h, err |-> r.err, out |-> EmptyStr]

\* the operation the worker of a binding calls
AsyncOp(h, fs, call, now, it) ==
        CASE call.op = "copy" ->
                 unit(CopyOp(h, fs, call.path, call.dest, now, it))
          [] call.op = "move" ->
                 unit(MoveOp(h, fs, call.path, call.dest, now, it))
          [] call.op = "delete" -> unit(DeleteOp(h, fs, call.path, now))
          [] call.op = "mkdir" -> unit(MkdirOp(h, fs, call.path, now))
          [] call.op = "writeFile" ->
                 unit(WriteFileOp(h, fs, call.path, call.text, now))
          [] call.op = "readFile" ->
                 LET r == ReadFileOp(h, fs, call.path, call.encoding)
                 IN  [h |-> h, err |-> r.err, out |-> r.text]
          [] call.op = "directoryExists" ->
                 [h |-> h, err |-> "ok",
                  out |-> <<DirectoryExists(h, fs, call.path)>>]
          [] call.op = "fileExists" ->
                 [h |-> h, err |-> "ok",
                  out |-> <<FileExists(h, fs, call.path)>>]
          [] call.op = "glob" ->
                 LET r == GlobOp(h, fs, call.patterns, it)
                 IN  [h |-> h, err |-> r.err, out |-> r.paths]

\* the iterations the operation of a call can tell apart
AsyncIterations(h, fs, call) ==
    CASE call.op = "copy" -> copyIterations(h, fs, call.path, call.dest, FALSE)
      [] call.op = "move" -> copyIterations(h, fs, call.path, call.dest, TRUE)
      [] call.op = "glob" -> GlobIterations(h)
      [] OTHER -> {Plain}

\* the arguments a binding extracted: readFile without an encoding reads
\* "utf-8", glob takes one string as a list of one pattern
AsyncArgs(op, p, q) ==
    [Call(op, p, q, IF op = "writeFile" THEN <<"x">> ELSE EmptyStr)
        EXCEPT !.encoding = IF op = "readFile" THEN "utf-8" ELSE "",
               !.patterns = IF op = "glob" THEN <<p>> ELSE << >>]

\* a worker panicked: the process is gone
Crashed == \E i \in DOMAIN promises : promises[i].worker = "crashed"

\* a binding is called with string arguments: the promise is pending and a
\* worker is started
AsyncCall ==
    /\ ~Crashed
    /\ Len(promises) < MaxPromises
    /\ \E op \in AsyncOps, p \in AsyncPaths :
           \E q \in IF op \in {"copy", "move"} THEN AsyncPaths
                     ELSE {EmptyStr} :
               promises' = Append(promises,
                   Promise(AsyncArgs(op, p, q), "extracted", "pending", 0,
                           "started"))
    /\ UNCHANGED <<heap, fsys, clock, last, sandbox, value, frames>>

\* a binding is called with an argument missing or not a string: the
\* promise is rejected at once and no worker is started
AsyncCallRejected ==
    /\ ~Crashed
    /\ Len(promises) < MaxPromises
    /\ \E op \in AsyncOps :
           promises' = Append(promises,
               [Promise(AsyncArgs(op, EmptyStr, EmptyStr), "failed",
                        "rejected", 1, "none") EXCEPT !.err = "BadArgument"])
    /\ UNCHANGED <<heap, fsys, clock, last, sandbox, value, frames>>

\* the worker of promise i has called its operation, which ended with r: a
\* panic ends the process, a return is kept for the settlement
WorkerRan(i, r) ==
    IF Panicked(r)
    THEN /\ promises' = [promises EXCEPT ![i].worker = "crashed"]
         /\ heap' = heap
    ELSE /\ promises' = [promises EXCEPT ![i].worker = "ran",
                                         ![i].err = r.err,
                                         ![i].out = r.out]
         /\ heap' = Collect(r.h, fsys.root)

\* a worker runs its operation
WorkerRun ==
    /\ ~Crashed
    /\ \E i \in DOMAIN promises :
           /\ promises[i].worker = "started"
           /\ \E it \in AsyncIterations(heap, fsys, promises[i].call) :
                  WorkerRan(i, AsyncOp(heap, fsys, promises[i].call, clock, it))
    /\ UNCHANGED <<fsys, clock, last, sandbox, value, frames>>

\* a worker settles its promise: rejected when the operation returned an
\* error, resolved with its result otherwise
WorkerSettle ==
    /\ ~Crashed
    /\ \E i \in DOMAIN promises :
           /\ promises[i].worker = "ran"
           /\ promises' = [promises EXCEPT
                  ![i].worker = "done",
                  ![i].settled = @ + 1,
                  ![i].state = IF promises[i].err = "ok" THEN "resolved"
                               ELSE "rejected"]
    /\ UNCHANGED <<heap, fsys, clock, last, sandbox, value, frames>>

AsyncNext == AsyncCall \/ AsyncCallRejected \/ WorkerRun \/ WorkerSettle

AsyncSpec == Init /\ [][AsyncNext]_vars

(***************************************************************************)
(* MakeValue and ParseValue of utils.go applied to Go values: a value is    *)
(* made into a script value, and a string, a bool or a time is parsed back  *)
(* into a variable of its type that holds the zero value.                   *)
(***************************************************************************)
ValueInit ==
    /\ clock = 0
    /\ heap = NewMemoryFS(TRUE, 0).h
    /\ fsys = NewMemoryFS(TRUE, 0).fs
    /\ last = NoCall
    /\ sandbox = NoSandbox
    /\ promises = << >>
    /\ frames = NoFrames
    /\ \/ \E type \in {"nil", "*int"} :
              value = Conversion("go", GoValue(type, TRUE, Zero), Null,
                                 Parsed("ok", Zero))
       \/ \E type \in {"int", "*int"}, v \in GoInts :
              value = Conversion("go", GoValue(type, FALSE, v), Null,
                                 Parsed("ok", Zero))
       \/ \E s \in GoStrings :
              value = Conversion("go", GoValue("string", FALSE, s), Null,
                                 Parsed("ok", EmptyStr))
       \/ \E b \in BOOLEAN :
              value = Conversion("go", GoValue("bool", FALSE, b), Null,
                                 Parsed("ok", FALSE))
       \/ \E t \in GoTimes :
              value = Conversion("go", GoValue("time.Time", FALSE, t), Null,
                                 Parsed("ok", Time(<<-62, 135, 596, 800>>, 0)))

\* v, err = MakeValue(ctx, in)
MakeValueCall ==
    /\ value.pc = "go"
    /\ value' = [value EXCEPT !.pc = "made", !.made = MakeValue(value.in)]
    /\ UNCHANGED <<heap, fsys, clock, last, sandbox, promises, frames>>

\* err = ParseValue(ctx, v, &out) for out of the type of in
ParseValueCall ==
    /\ value.pc = "made"
    /\ value.in.type \in {"string", "bool", "time.Time"}
    /\ LET out == CASE value.in.type = "string" -> "*string"
                     [] value.in.type = "bool" -> "*bool"
                     [] value.in.type = "time.Time" -> "*time.Time"
       IN  value' = [value EXCEPT
                        !.pc = "parsed",
                        !.out = ParseValue(value.made, out, value.out.v)]
    /\ UNCHANGED <<heap, fsys, clock, last, sandbox, promises, frames>>

ValueNext == MakeValueCall \/ ParseValueCall

ValueSpec == ValueInit /\ [][ValueNext]_vars

(***************************************************************************)
(* Two mkdir bindings at once.  fnMkdir starts a goroutine for each call    *)
(* and none takes a lock, so the goroutines run MemoryFS.mkdir statement by *)
(* statement in any order.  A frame is a goroutine inside mkdir: the parts  *)
(* of its path, the index i of the part it is at, its variables node and    *)
(* dir, and the statement pc it executes next:                              *)
(*   "lookup"  dir, found := node.children[part]  (and, when not found,     *)
(*             dir = &MemoryDirNode{...}, which no other goroutine sees)    *)
(*   "check"   if node.children == nil                                      *)
(*   "make"    node.children = make(map[string]*MemoryDirNode)              *)
(*   "put"     node.children[dir.name] = dir                                *)
(*   "stamp"   node.modeTime = now, then node = dir                         *)
(* Each statement is one step.  Two goroutines that are at a write and at   *)
(* an access of the same map at once are a data race on the map: the        *)
(* statements take effect one after the other, or the runtime ends the      *)
(* process ("concurrent map writes").  started and mixed record the run:    *)
(* mixed says that the goroutine took a step while another was under way.   *)
(***************************************************************************)
Frame(parts, i, node, dir, pc) ==
    [parts |-> parts, i |-> i, node |-> node, dir |-> dir, pc |-> pc,
     started |-> FALSE, mixed |-> FALSE]

\* the index of the next part of parts from i on that is not empty, or 0
RECURSIVE NextPart(_, _)
NextPart(parts, i) ==
    IF i > Len(parts) THEN 0
    ELSE IF parts[i] = EmptyStr THEN NextPart(parts, i + 1)
    ELSE i

\* dir, found := node.children[part] and the allocation of the new node
lookup(h, f) ==
    LET i == NextPart(f.parts, f.i)
        part == f.parts[i]
        id == FreshId(h.d)
    IN  IF i = 0 THEN [h |-> h, f |-> [f EXCEPT !.pc = "done"]]
        ELSE IF MapHas(h.d[f.node].children, part)
        THEN [h |-> mkdirFound(h, f.node, h.d[f.node].children.m[part], clock),
              f |-> [f EXCEPT !.i = i + 1,
                              !.node = h.d[f.node].children.m[part]]]
        ELSE [h |-> AllocDir(h, id, mkdirNode(f.node, part, clock)),
              f |-> [f EXCEPT !.i = i, !.dir = id, !.pc = "check"]]

\* if node.children == nil; otherwise node = dir and the loop goes on
check(h, f) ==
    IF h.d[f.node].children.nil THEN [h |-> h, f |-> [f EXCEPT !.pc = "make"]]
    ELSE [h |-> h,
          f |-> [f EXCEPT !.i = f.i + 1, !.node = f.dir, !.pc = "lookup"]]

\* node.children = make(map[string]*MemoryDirNode)
make(h, f) ==
    [h |-> SetDir(h, f.node, [h.d[f.node] EXCEPT !.children = MakeMap]),
     f |-> [f EXCEPT !.pc = "put"]]

\* put that leaves the map as it is
putNothing(h, f) == [h |-> h, f |-> [f EXCEPT !.pc = "stamp"]]

\* node.children[dir.name] = dir, on the map node.children holds now
put(h, f) ==
    [h |-> SetDir(h, f.node,
                  [h.d[f.node] EXCEPT
                      !.children = MapPut(@, h.d[f.dir].name, f.dir)]),
     f |-> [f EXCEPT !.pc = "stamp"]]

\* node.modeTime = now; node = dir
stamp(h, f) ==
    [h |-> SetDir(h, f.node, [h.d[f.node] EXCEPT !.modeTime = clock]),
     f |-> [f EXCEPT !.i = f.i + 1, !.node = f.dir, !.pc = "lookup"]]

\* goroutine k has executed a statement that left r
Stepped(k, r) ==
    /\ heap' = r.h
    /\ frames' =
          [frames EXCEPT
              ![k] = [r.f EXCEPT
                         !.started = TRUE,
                         !.mixed = @ \/ \E j \in DOMAIN frames \ {k} :
                                           /\ frames[j].started
                                           /\ frames[j].pc # "done"]]
    /\ UNCHANGED <<fsys, clock, last, sandbox, promises, value>>

\* the runtime has not ended the process
Alive == \A k \in DOMAIN frames : frames[k].pc # "fatal"

\* the script calls mkdir(p): the binding starts a goroutine
RaceCall ==
    /\ Alive
    /\ Len(frames) < MaxFrames
    /\ \E p \in RacePaths :
           frames' = Append(frames,
                            Frame(Split(resolve(heap, fsys, p)), 1, fsys.root,
                                  NilId, "lookup"))
    /\ UNCHANGED <<heap, fsys, clock, last, sandbox, promises, value>>

RaceLookup ==
    /\ Alive
    /\ \E k \in DOMAIN frames :
           frames[k].pc = "lookup" /\ Stepped(k, lookup(heap, frames[k]))

RaceCheck ==
    /\ Alive
    /\ \E k \in DOMAIN frames :
           frames[k].pc = "check" /\ Stepped(k, check(heap, frames[k]))

RaceMake ==
    /\ Alive
    /\ \E k \in DOMAIN frames :
           frames[k].pc = "make" /\ Stepped(k, make(heap, frames[k]))

RacePut ==
    /\ Alive
    /\ \E k \in DOMAIN frames :
           frames[k].pc = "put" /\ Stepped(k, put(heap, frames[k]))

RaceStamp ==
    /\ Alive
    /\ \E k \in DOMAIN frames :
           frames[k].pc = "stamp" /\ Stepped(k, stamp(heap, frames[k]))

\* a write of the map of a directory at the same time as another access of
\* it: the runtime may end the process
RaceFatal ==
    /\ Alive
    /\ \E k \in DOMAIN frames, j \in DOMAIN frames :
           /\ k # j
           /\ frames[k].pc = "put"
           /\ frames[j].pc \in {"put", "lookup"}
           /\ frames[j].node = frames[k].node
           /\ NextPart(frames[j].parts, frames[j].i) # 0
    /\ frames' = [k \in DOMAIN frames |-> [frames[k] EXCEPT !.pc = "fatal"]]
    /\ UNCHANGED <<heap, fsys, clock, last, sandbox, promises, value>>

RaceNext ==
    \/ RaceCall \/ RaceLookup \/ RaceCheck \/ RaceMake \/ RacePut \/ RaceStamp
    \/ RaceFatal

RaceSpec == Init /\ [][RaceNext]_vars

(***************************************************************************)
(* Observations of the tree used to state the properties.                   *)
(***************************************************************************)
\* the non-empty parts of a path, the names a walk follows
Segments(path) == SelectSeq(Split(path), LAMBDA part : part # EmptyStr)

\* the directory a walk from d along child mappings ends at, or NilId
RECURSIVE WalkDirs(_, _, _)
WalkDirs(h, d, segs) ==
    IF segs = << >> THEN d
    ELSE IF MapHas(h.d[d].children, Head(segs))
    THEN WalkDirs(h, h.d[d].children.m[Head(segs)], Tail(segs))
    ELSE NilId

\* the directory at the names segs below the root, or NilId
DirAt(h, fs, segs) == WalkDirs(h, fs.root, segs)

\* the file at the names segs below the root, or NilId
FileAt(h, fs, segs) ==
    IF segs = << >> THEN NilId
    ELSE LET d == DirAt(h, fs, SubSeq(segs, 1, Len(segs) - 1))
             name == segs[Len(segs)]
         IN  IF d = NilId \/ MapHas(h.d[d].children, name) THEN NilId
             ELSE IF MapHas(h.d[d].files, name) THEN h.d[d].files.m[name]
             ELSE NilId

\* the directories and files the root reaches through child and file mappings
TreeDirs(h, fs) == DirReach(h, fs.root)

TreeFiles(h, fs) == FilesOf(h, TreeDirs(h, fs))

\* a snapshot of the whole tree: every reachable node with all its fields
Tree(h, fs) ==
    [d |-> [x \in TreeDirs(h, fs) |-> h.d[x]],
     f |-> [x \in TreeFiles(h, fs) |-> h.f[x]]]

\* the directory that holds the entry a file-shaped path names
ParentSegs(h, fs, path) ==
    LET segs == Segments(resolve(h, fs, path))
    IN  SubSeq(segs, 1, Len(segs) - 1)

(***************************************************************************)
(* C1.  No operation aborts with a panic: every call ends by returning a    *)
(* result or an error value.                                                *)
(***************************************************************************)
C1_NoPanic == last.err # "panic"

(***************************************************************************)
(* C2.  WriteFile(p, t) on a file-shaped path p whose parent directory      *)
(* exists succeeds, and ReadFile(p, "utf-8") then returns exactly t.        *)
(***************************************************************************)
C2_WriteThenRead ==
    [][(/\ last'.call.op = "WriteFile"
        /\ isFilePath(last'.call.path)
        /\ DirAt(heap, fsys, ParentSegs(heap, fsys, last'.call.path)) # NilId)
       => /\ last'.err = "ok"
          /\ ReadFileOp(heap', fsys, last'.call.path, "utf-8")
                = [err |-> "ok", text |-> last'.call.text]]_vars

(***************************************************************************)
(* C3.  WriteFile(p, t) where a directory on the parent chain of p does not *)
(* exist fails with NotFound and leaves the whole tree unchanged: no        *)
(* directory and no file is created.                                        *)
(***************************************************************************)
C3_WriteMissingParent ==
    [][(/\ last'.call.op = "WriteFile"
        /\ isFilePath(last'.call.path)
        /\ DirAt(heap, fsys, ParentSegs(heap, fsys, last'.call.path)) = NilId)
       => /\ last'.err = "NotFound"
          /\ Tree(heap', fsys) = Tree(heap, fsys)]_vars

\* a WriteFile below a missing directory has returned
C3_Witness ==
    /\ last.call.op = "WriteFile"
    /\ last.err = "NotFound"
    /\ isFilePath(last.call.path)
    /\ DirAt(heap, fsys, ParentSegs(heap, fsys, last.call.path)) = NilId

(***************************************************************************)
(* More observations: the entries of the tree by their names below the root.*)
(***************************************************************************)
\* the names of the entries below d, to the given depth
RECURSIVE EntryPathsFrom(_, _, _)
EntryPathsFrom(h, d, depth) ==
    IF depth = 0 THEN {}
    ELSE {<<k>> : k \in MapKeys(h.d[d].children) \cup MapKeys(h.d[d].files)}
         \cup UNION {{<<k>> \o segs :
                        segs \in EntryPathsFrom(h, h.d[d].children.m[k],
                                                depth - 1)} :
                     k \in MapKeys(h.d[d].children)}

\* the names below the root of the entries of the tree
EntryPaths(h, fs) ==
    EntryPathsFrom(h, fs.root, Cardinality(DOMAIN h.d))

\* the directories at the proper prefixes of segs, the root included
AncestorsAt(h, fs, segs) ==
    {DirAt(h, fs, SubSeq(segs, 1, n)) : n \in 0..(Len(segs) - 1)} \ {NilId}

\* the sum of the content lengths of a set of file nodes
RECURSIVE SumBytes(_, _)
SumBytes(h, F) ==
    IF F = {} THEN 0
    ELSE LET f == CHOOSE f \in F : TRUE
         IN  FileSize(h, f) + SumBytes(h, F \ {f})

\* a call of one of the operations that change the tree has just ended
Mutators == {"WriteFile", "Mkdir", "Delete", "Copy", "Move"}

(***************************************************************************)
(* C4.  When WriteFile creates a file of content length n, or overwrites a  *)
(* file so that its content length changes, the size of every ancestor      *)
(* directory of the file, up to the root, changes by exactly that amount,   *)
(* and the size of no other directory changes.                              *)
(***************************************************************************)
C4_WriteSizeDelta ==
    [][(/\ last'.call.op = "WriteFile"
        /\ isFilePath(last'.call.path)
        /\ DirAt(heap, fsys, ParentSegs(heap, fsys, last'.call.path)) # NilId
        /\ DirAt(heap, fsys,
                 Segments(resolve(heap, fsys, last'.call.path))) = NilId)
       => LET segs == Segments(resolve(heap, fsys, last'.call.path))
              old == FileAt(heap, fsys, segs)
              delta == Len(last'.call.text)
                         - (IF old = NilId THEN 0 ELSE FileSize(heap, old))
          IN  /\ last'.err = "ok"
              /\ \A d \in TreeDirs(heap, fsys) :
                    /\ d \in DOMAIN heap'.d
                    /\ heap'.d[d].size = heap.d[d].size
                          + (IF d \in AncestorsAt(heap, fsys, segs)
                             THEN delta ELSE 0)]_vars

C6_AncestorsStamped ==
    [][(/\ last'.call.op \in Mutators
        /\ last'.err = "ok")
       => \A segs \in EntryPaths(heap, fsys) \cup EntryPaths(heap', fsys) :
             (\/ (DirAt(heap, fsys, segs) = NilId)
                    # (DirAt(heap', fsys, segs) = NilId)
              \/ (FileAt(heap, fsys, segs) = NilId)
                    # (FileAt(heap', fsys, segs) = NilId)
              \/ /\ FileAt(heap, fsys, segs) # NilId
                 /\ FileAt(heap', fsys, segs) # NilId
                 /\ heap.f[FileAt(heap, fsys, segs)].content
                       # heap'.f[FileAt(heap', fsys, segs)].content)
             => \A a \in AncestorsAt(heap', fsys, segs) :
                   heap'.d[a].modeTime >= clock]_vars

(***************************************************************************)
(* C7.  Parent/child consistency: for every directory d the root reaches,   *)
(* each entry (k, c) of d's child-directory mapping has c.parent = d and    *)
(* c.name = k, and each entry (k, f) of d's file mapping has f.parent = d   *)
(* and f.name = k.                                                          *)
(***************************************************************************)
C7_ParentChildConsistent ==
    \A d \in TreeDirs(heap, fsys) :
        /\ \A k \in MapKeys(heap.d[d].children) :
              /\ heap.d[heap.d[d].children.m[k]].parent = d
              /\ heap.d[heap.d[d].children.m[k]].name = k
        /\ \A k \in MapKeys(heap.d[d].files) :
              /\ heap.f[heap.d[d].files.m[k]].parent = d
              /\ heap.f[heap.d[d].files.m[k]].name = k

(***************************************************************************)
(* C8.  After Mkdir(p) returns success, DirectoryExists is true for p and   *)
(* for every ancestor prefix of the resolved path, and every directory that *)
(* existed before the call still exists.                                    *)
(***************************************************************************)
C8_MkdirMakesPath ==
    [][(/\ last'.call.op = "Mkdir"
        /\ last'.err = "ok")
       => LET segs == Segments(resolve(heap, fsys, last'.call.path))
          IN  /\ DirectoryExists(heap', fsys, last'.call.path)
              /\ \A n \in 0..Len(segs) :
                    DirAt(heap', fsys, SubSeq(segs, 1, n)) # NilId
              /\ \A q \in EntryPaths(heap, fsys) :
                    DirAt(heap, fsys, q) # NilId
                       => DirAt(heap', fsys, q) # NilId]_vars

(***************************************************************************)
(* C9.  Mkdir is idempotent: right after Mkdir(p), a second Mkdir(p) at the *)
(* same or a later time returns success and leaves the tree as the first    *)
(* call left it (same nodes, sizes and modification times); and when the    *)
(* first call left an empty directory at p, as on a new filesystem, ReadDir *)
(* of p after the second call lists nothing.                                *)
(***************************************************************************)
C9_MkdirIdempotent ==
    (last.call.op = "Mkdir" /\ last.err = "ok")
    => \A now \in {clock, clock + 1} :
          LET r == MkdirOp(heap, fsys, last.call.path, now)
              made == DirAt(heap, fsys,
                            Segments(resolve(heap, fsys, last.call.path)))
          IN  /\ r.err = "ok"
              /\ Tree(r.h, fsys) = Tree(heap, fsys)
              /\ (/\ made # NilId
                  /\ MapKeys(heap.d[made].children) = {}
                  /\ MapKeys(heap.d[made].files) = {})
                 => \A it \in Iterations :
                       ReadDirOp(r.h, fsys, last.call.path, it)
                          = [err |-> "ok", dirs |-> << >>, files |-> << >>]

\* Mkdir("/a") on a new filesystem has returned: the tree is the root and /a
C9_Witness ==
    /\ last.call.op = "Mkdir"
    /\ last.call.path = <<"/", "a">>
    /\ last.err = "ok"
    /\ Cardinality(TreeDirs(heap, fsys)) = 2
    /\ DirAt(heap, fsys, <<<<"a">>>>) # NilId

(***************************************************************************)
(* C10.  Delete(p) on a path that locates neither a file nor a directory    *)
(* returns NotFound and leaves the entire tree (structure, contents, sizes, *)
(* modification times) as it was before the call.                           *)
(***************************************************************************)
C10_DeleteMissing ==
    [][(/\ last'.call.op = "Delete"
        /\ DirAt(heap, fsys,
                 Segments(resolve(heap, fsys, last'.call.path))) = NilId
        /\ FileAt(heap, fsys,
                  Segments(resolve(heap, fsys, last'.call.path))) = NilId)
       => /\ last'.err = "NotFound"
          /\ Tree(heap', fsys) = Tree(heap, fsys)]_vars

\* a Delete of a path that names nothing has returned
C10_Witness ==
    /\ last.call.op = "Delete"
    /\ last.err = "NotFound"
    /\ DirAt(heap, fsys, Segments(resolve(heap, fsys, last.call.path))) = NilId
    /\ Cardinality(TreeDirs(heap, fsys)) >= 2

(***************************************************************************)
(* C11.  The root is never removed.  In every reachable state the node made *)
(* by NewMemoryFS is the filesystem's root, it has no parent, no directory  *)
(* holds it as a child, and DirectoryExists("/") is true.  Delete of a path *)
(* that resolves to the root succeeds and leaves the root with no child     *)
(* directories, no files and size 0: ReadDir("/") lists nothing.            *)
(***************************************************************************)
C11_RootStays ==
    /\ fsys.root = 1
    /\ fsys.root \in DOMAIN heap.d
    /\ heap.d[fsys.root].parent = NilId
    /\ \A d \in DOMAIN heap.d : \A k \in MapKeys(heap.d[d].children) :
          heap.d[d].children.m[k] # fsys.root
    /\ DirectoryExists(heap, fsys, <<"/">>)
    /\ (/\ last.call.op = "Delete"
        /\ Segments(resolve(heap, fsys, last.call.path)) = << >>)
       => /\ last.err = "ok"
          /\ MapKeys(heap.d[fsys.root].children) = {}
          /\ MapKeys(heap.d[fsys.root].files) = {}
          /\ heap.d[fsys.root].size = 0
          /\ ReadDirOp(heap, fsys, <<"/">>, Plain)
                = [err |-> "ok", dirs |-> << >>, files |-> << >>]

\* Delete("/") has returned at a time after the filesystem was made, and the
\* root carries the time of that call
C11_Witness ==
    /\ last.call.op = "Delete"
    /\ last.call.path = <<"/">>
    /\ last.err = "ok"
    /\ clock > 0
    /\ heap.d[fsys.root].modeTime = clock
    /\ DirectoryExists(heap, fsys, <<"/">>)

(***************************************************************************)
(* C12.  When Delete(p) returns success for a path p that resolves to       *)
(* something other than the root, afterwards neither FileExists(p) nor      *)
(* DirectoryExists(p) is true.                                              *)
(***************************************************************************)
C12_DeleteRemoves ==
    [][(/\ last'.call.op = "Delete"
        /\ last'.err = "ok"
        /\ locate(heap, fsys, resolve(heap, fsys, last'.call.path),
                  FALSE).dir # fsys.root)
       => /\ ~FileExists(heap', fsys, last'.call.path)
          /\ ~DirectoryExists(heap', fsys, last'.call.path)]_vars

(***************************************************************************)
(* The tree by names and contents only: which names below the root are      *)
(* directories, which are files and what the files hold.                    *)
(***************************************************************************)
Structure(h, fs) ==
    {<<segs, "dir", EmptyStr>> :
        segs \in {q \in EntryPaths(h, fs) : DirAt(h, fs, q) # NilId}}
    \cup {<<segs, "file", h.f[FileAt(h, fs, segs)].content>> :
             segs \in {q \in EntryPaths(h, fs) : FileAt(h, fs, q) # NilId}}

\* what a run of calls leaves: the tree by names and contents, or the panic
Outcome(r, fs) ==
    IF Panicked(r) THEN <<"panic">> ELSE <<"tree", Structure(r.h, fs)>>

\* Copy(a, b) followed by Delete(a)
CopyThenDelete(h, fs, a, b, now, it) ==
    LET c == CopyOp(h, fs, a, b, now, it)
    IN  IF Panicked(c) THEN c ELSE DeleteOp(c.h, fs, a, now)

(***************************************************************************)
(* C13.  From every reachable state and for every pair of paths a, b,       *)
(* Copy(a, b) followed by Delete(a) leaves a tree equal in structure and    *)
(* file contents (modification times aside) to the tree Move(a, b) leaves   *)
(* from the same state, also when a is the root, when a = b and when b      *)
(* lies inside a.                                                           *)
(***************************************************************************)
C13_CopyDeleteIsMove ==
    Idle =>
        \A a \in Paths, b \in Paths :
            \A ic \in copyIterations(heap, fsys, a, b, FALSE),
               im \in copyIterations(heap, fsys, a, b, TRUE) :
                Outcome(CopyThenDelete(heap, fsys, a, b, clock, ic), fsys)
                   = Outcome(MoveOp(heap, fsys, a, b, clock, im), fsys)

\* the names s lead to the entry the names t lead to, or to one above it
IsPrefix(s, t) == Len(s) <= Len(t) /\ SubSeq(t, 1, Len(s)) = s

\* neither path names the other's entry or an entry inside it
Apart(h, fs, a, b) ==
    LET sa == Segments(resolve(h, fs, a))
        sb == Segments(resolve(h, fs, b))
    IN  ~IsPrefix(sa, sb) /\ ~IsPrefix(sb, sa)

(***************************************************************************)
(* C14.  After Move(a, b) succeeds for an existing directory a other than   *)
(* the root and a destination b apart from a, DirectoryExists(a) is false   *)
(* and every directory and every file that was at a/r is at b/r, the files  *)
(* with the content they had: nothing of the source subtree is lost.        *)
(***************************************************************************)
C14_MoveKeepsSubtree ==
    [][(/\ last'.call.op = "Move"
        /\ last'.err = "ok"
        /\ DirAt(heap, fsys,
                 Segments(resolve(heap, fsys, last'.call.path))) # NilId
        /\ Apart(heap, fsys, last'.call.path, last'.call.dest))
       => LET sa == Segments(resolve(heap, fsys, last'.call.path))
              sb == Segments(resolve(heap, fsys, last'.call.dest))
              src == DirAt(heap, fsys, sa)
          IN  /\ ~DirectoryExists(heap', fsys, last'.call.path)
              /\ \A r \in EntryPathsFrom(heap, src,
                                         Cardinality(DOMAIN heap.d)) :
                    /\ DirAt(heap, fsys, sa \o r) # NilId
                          => DirAt(heap', fsys, sb \o r) # NilId
                    /\ FileAt(heap, fsys, sa \o r) # NilId
                          => /\ FileAt(heap', fsys, sb \o r) # NilId
                             /\ heap'.f[FileAt(heap', fsys, sb \o r)].content
                                  = heap.f[FileAt(heap, fsys, sa \o r)].content
       ]_vars

(***************************************************************************)
(* C15.  Copy(a, b) of a directory a to a destination b outside a leaves    *)
(* every node of the source subtree as it was, and every node it inserts    *)
(* below b is a new node whose parent back-reference points to a node of    *)
(* the destination subtree that is no node of the source: the copy shares   *)
(* nothing with the source and refers to nothing of it.                     *)
(***************************************************************************)
C15_CopyIndependent ==
    [][(/\ last'.call.op = "Copy"
        /\ last'.err = "ok"
        /\ DirAt(heap, fsys,
                 Segments(resolve(heap, fsys, last'.call.path))) # NilId
        /\ ~IsPrefix(Segments(resolve(heap, fsys, last'.call.path)),
                     Segments(resolve(heap, fsys, last'.call.dest))))
       => LET sa == Segments(resolve(heap, fsys, last'.call.path))
              sb == Segments(resolve(heap, fsys, last'.call.dest))
              S == DirReach(heap, DirAt(heap, fsys, sa))
              dst == DirAt(heap', fsys, sb)
              D == IF dst = NilId THEN {} ELSE DirReach(heap', dst)
          IN  /\ \A x \in S : x \in DOMAIN heap'.d /\ heap'.d[x] = heap.d[x]
              /\ \A f \in FilesOf(heap, S) :
                    f \in DOMAIN heap'.f /\ heap'.f[f] = heap.f[f]
              /\ \A n \in (D \ {dst}) \ DOMAIN heap.d :
                    heap'.d[n].parent \in D \ S
              /\ \A f \in FilesOf(heap', D) \ DOMAIN heap.f :
                    heap'.f[f].parent \in D \ S]_vars

\* a WriteFile call on a file-shaped path whose parent directory exists and
\* that names no directory has just ended: the call that makes a file
WroteFile ==
    /\ last'.call.op = "WriteFile"
    /\ isFilePath(last'.call.path)
    /\ DirAt(heap, fsys, ParentSegs(heap, fsys, last'.call.path)) # NilId
    /\ DirAt(heap, fsys, Segments(resolve(heap, fsys, last'.call.path))) = NilId

\* g is file-shaped, its parent directory exists and it names no directory
FileDest(h, fs, g) ==
    /\ isFilePath(g)
    /\ DirAt(h, fs, ParentSegs(h, fs, g)) # NilId
    /\ DirAt(h, fs, Segments(resolve(h, fs, g))) = NilId

\* the encoding tokens the specification accepts
Utf8Tokens == {"utf8", "utf-8"}

(***************************************************************************)
(* C16.  Once WriteFile(f, t) has made the file f: for every file-shaped    *)
(* path g whose parent directory exists, Copy(f, g) succeeds, leaves a file *)
(* g with content t, makes no directory g and leaves f in place; Move(f, g) *)
(* does the same and, for g other than f, FileExists(f) is false after it.  *)
(***************************************************************************)
C16_FileCopyMove ==
    [][WroteFile
       => /\ last'.err = "ok"
          /\ \A g \in {q \in Paths : FileDest(heap', fsys, q)} :
                LET f == last'.call.path
                    t == [err |-> "ok", text |-> last'.call.text]
                    c == CopyOp(heap', fsys, f, g, clock, Plain)
                    m == MoveOp(heap', fsys, f, g, clock, Plain)
                    same == Segments(resolve(heap', fsys, f))
                              = Segments(resolve(heap', fsys, g))
                IN  /\ c.err = "ok"
                    /\ ReadFileOp(c.h, fsys, g, "utf-8") = t
                    /\ ~DirectoryExists(c.h, fsys, g)
                    /\ ReadFileOp(c.h, fsys, f, "utf-8") = t
                    /\ m.err = "ok"
                    /\ ReadFileOp(m.h, fsys, g, "utf-8") = t
                    /\ ~DirectoryExists(m.h, fsys, g)
                    /\ same \/ ~FileExists(m.h, fsys, f)]_vars

(***************************************************************************)
(* C17.  Path resolution is idempotent under both case policies: what       *)
(* Realpath returns for p, resolve(p), is a fixed point of resolve, for     *)
(* absolute, relative and empty p, with repeated or trailing separators.    *)
(***************************************************************************)
C17_ResolveIdempotent ==
    last.call.op = "Realpath"
    => /\ last.err = "ok"
       /\ last.out = resolve(heap, fsys, last.call.path)
       /\ resolve(heap, fsys, last.out) = last.out

\* Realpath of a relative path in capitals with repeated and trailing
\* separators has returned on a case-insensitive filesystem
C17_Witness ==
    /\ last.call.op = "Realpath"
    /\ ~fsys.caseSensitive
    /\ last.call.path = <<"a", "/", "/", "B", "/", "/">>
    /\ last.out = <<"/", "a", "/", "/", "b">>

(***************************************************************************)
(* C18.  On a case-insensitive filesystem, once WriteFile(p, x) has made    *)
(* the file p, ReadFile(q) succeeds and returns x for every path q that     *)
(* differs from p only in letter case.                                      *)
(***************************************************************************)
C18_CaseInsensitiveRead ==
    [][(WroteFile /\ ~fsys.caseSensitive)
       => /\ last'.err = "ok"
          /\ \A q \in {q \in Paths : ToLower(q) = ToLower(last'.call.path)} :
                ReadFileOp(heap', fsys, q, "utf-8")
                   = [err |-> "ok", text |-> last'.call.text]]_vars

(***************************************************************************)
(* C19.  Once WriteFile(p, x) has made the file p, ReadFile(p, enc) returns *)
(* the content x when enc is "utf8" or "utf-8" and returns an error for     *)
(* every other encoding token.                                              *)
(***************************************************************************)
C19_OnlyUtf8 ==
    [][WroteFile
       => /\ last'.err = "ok"
          /\ \A enc \in Encodings :
                IF enc \in Utf8Tokens
                THEN ReadFileOp(heap', fsys, last'.call.path, enc)
                        = [err |-> "ok", text |-> last'.call.text]
                ELSE ReadFileOp(heap', fsys, last'.call.path, enc).err
                        # "ok"]_vars

(***************************************************************************)
(* C20.  With an accepted encoding, ReadFile(p) fails with NotAFile when p  *)
(* is empty, ends with a separator or resolves to a directory; fails with   *)
(* NotFound when p locates nothing, also when a segment before the last     *)
(* names a file; and returns the stored content exactly when p resolves to  *)
(* a file.                                                                  *)
(***************************************************************************)
C20_ReadFileErrors ==
    (last.call.op = "ReadFile" /\ last.call.encoding \in Utf8Tokens)
    => LET p == last.call.path
           segs == Segments(resolve(heap, fsys, p))
       IN  IF p = EmptyStr \/ HasSuffixSep(p) \/ DirAt(heap, fsys, segs) # NilId
           THEN last.err = "NotAFile"
           ELSE IF FileAt(heap, fsys, segs) # NilId
           THEN /\ last.err = "ok"
                /\ last.out = heap.f[FileAt(heap, fsys, segs)].content
           ELSE last.err = "NotFound"

\* ReadFile of a file-shaped path that names a directory below the root has
\* returned NotAFile
C20_Witness ==
    /\ last.call.op = "ReadFile"
    /\ last.call.encoding \in Utf8Tokens
    /\ last.err = "NotAFile"
    /\ isFilePath(last.call.path)
    /\ Segments(resolve(heap, fsys, last.call.path)) # << >>
    /\ DirAt(heap, fsys, Segments(resolve(heap, fsys, last.call.path))) # NilId

(***************************************************************************)
(* C21.  ReadDir(p) fails with NotFound when p locates nothing, fails with  *)
(* NotADirectory when p resolves to a file, and otherwise returns exactly   *)
(* one record for each immediate child directory and each immediate file of *)
(* the directory at p: none for deeper descendants, none for the directory  *)
(* itself.                                                                  *)
(***************************************************************************)
C21_ReadDirRecords ==
    last.call.op = "ReadDir"
    => LET segs == Segments(resolve(heap, fsys, last.call.path))
           d == DirAt(heap, fsys, segs)
           Recs(isDir) == {i \in 1..Len(last.out) : last.out[i].isDir = isDir}
           Once(isDir, mp) ==
               /\ {last.out[i].node : i \in Recs(isDir)}
                     = {mp.m[k] : k \in MapKeys(mp)}
               /\ Cardinality(Recs(isDir)) = Cardinality(MapKeys(mp))
               /\ \A i, j \in Recs(isDir) :
                     last.out[i].node = last.out[j].node => i = j
       IN  IF d # NilId
           THEN /\ last.err = "ok"
                /\ Once(TRUE, heap.d[d].children)
                /\ Once(FALSE, heap.d[d].files)
                /\ \A i \in Recs(TRUE) : last.out[i].node # d
           ELSE IF FileAt(heap, fsys, segs) # NilId
           THEN last.err = "NotADirectory" /\ last.out = << >>
           ELSE last.err = "NotFound" /\ last.out = << >>

\* ReadDir has listed a directory with two child directories, one of which
\* has a child directory of its own
C21_Witness ==
    /\ last.call.op = "ReadDir"
    /\ last.err = "ok"
    /\ Len(last.out) = 2
    /\ \E i \in 1..2 : MapKeys(heap.d[last.out[i].node].children) # {}

C23_GlobCanonicalPath ==
    [][WroteFile
       => LET real == resolve(heap', fsys, last'.call.path)
              inDir == dirName(real)
              star == (IF inDir = Sep THEN Sep ELSE inDir \o Sep) \o <<"*">>
              d == DirAt(heap, fsys, ParentSegs(heap, fsys, last'.call.path))
          IN  /\ last'.err = "ok"
              /\ \A it \in GlobIterations(heap') :
                    /\ GlobOp(heap', fsys, <<real>>, it)
                          = GlobRet("ok", <<real>>)
                    /\ MapKeys(heap.d[d].files) = {}
                         => GlobOp(heap', fsys, <<star>>, it)
                               = GlobRet("ok", <<real>>)]_vars

\* the results of a list of Glob calls, one after the other
RECURSIVE GlobEach(_, _, _, _)
GlobEach(h, fs, patterns, it) ==
    IF patterns = << >> THEN << >>
    ELSE <<GlobOp(h, fs, <<Head(patterns)>>, it)>>
         \o GlobEach(h, fs, Tail(patterns), it)

\* the paths of a list of results, in order
RECURSIVE ConcatPaths(_)
ConcatPaths(results) ==
    IF results = << >> THEN << >>
    ELSE Head(results).paths \o ConcatPaths(Tail(results))

C25_GlobPatternError ==
    (/\ last.call.op = "Glob"
     /\ \E i \in 1..Len(last.call.patterns) :
           \E part \in {Split(last.call.patterns[i])[n] :
                           n \in 1..Len(Split(last.call.patterns[i]))} :
               ~isNotPattern(part) /\ ~Compiles(part))
    => last.err = "PatternError"

\* the outcomes of a call that are error values
Errors == {"NotFound", "NotADirectory", "NotAFile", "PatternError"}

(***************************************************************************)
(* C26.  Every operation that returns an error (Delete, ReadDir, ReadFile,  *)
(* WriteFile, Copy, Move, Glob) leaves the whole tree unchanged: no         *)
(* directory created, no entry removed, no size or modification time        *)
(* altered.                                                                 *)
(***************************************************************************)
C26_ErrorsChangeNothing ==
    [][last'.err \in Errors
       => /\ Tree(heap', fsys') = Tree(heap, fsys)
          /\ heap' = heap
          /\ fsys' = fsys]_vars

\* a Move of a missing source to a missing destination has returned NotFound
\* on a tree with a directory
C26_Witness ==
    /\ last.call.op = "Move"
    /\ last.err = "NotFound"
    /\ DirAt(heap, fsys, Segments(resolve(heap, fsys, last.call.dest))) = NilId
    /\ Cardinality(TreeDirs(heap, fsys)) >= 2

\* the operations that only read
Readers ==
    {"ReadDir", "ReadFile", "FileExists", "DirectoryExists", "Realpath",
     "GetCurrentDirectory", "Glob"}

(***************************************************************************)
(* C27.  ReadDir, ReadFile, FileExists, DirectoryExists, Realpath,          *)
(* GetCurrentDirectory and Glob never modify the tree: after each of them,  *)
(* with any argument, every directory's children, files, sizes and          *)
(* modification times and the current-directory pointer are unchanged.      *)
(***************************************************************************)
C27_ReadersChangeNothing ==
    [][last'.call.op \in Readers
       => /\ Tree(heap', fsys') = Tree(heap, fsys)
          /\ heap' = heap
          /\ fsys' = fsys]_vars

\* ReadDir has listed a directory below the root
C27_Witness ==
    /\ last.call.op = "ReadDir"
    /\ last.err = "ok"
    /\ Segments(resolve(heap, fsys, last.call.path)) # << >>
    /\ Cardinality(TreeDirs(heap, fsys)) >= 3

(***************************************************************************)
(* C28.  The sandboxed resolver returns a host path only when the path      *)
(* lies within the root, element by element: the elements of the root are   *)
(* the first elements of the host path.  Any other outcome is an error.     *)
(***************************************************************************)
C28_StaysInRoot ==
    LET Within(root, hostPath) ==
            IsPrefix(Segments(root), Segments(hostPath))
    IN  (sandbox.path # NoPath /\ sandbox.ret.err = "ok")
            => Within(sandbox.fs.root, sandbox.ret.path)

(***************************************************************************)
(* C29.  Every call comes to an end: no call of Mkdir, Delete, Copy or Move *)
(* enters a recursion of deepCopy or merge that never reaches its base      *)
(* case, whatever calls came before it.                                     *)
(***************************************************************************)
C29_Terminates == last.err # "overflow"

(***************************************************************************)
(* C30.  Every promise of an asynchronous binding is settled once: it is    *)
(* rejected with no worker when an argument could not be extracted; a       *)
(* worker that is through has rejected it when the operation returned an    *)
(* error and resolved it otherwise; and a promise that is still pending has *)
(* a worker that is on its way to settle it.                                *)
(***************************************************************************)
C30_SettledOnce ==
    \A i \in DOMAIN promises :
        LET p == promises[i]
        IN  /\ p.settled <= 1
            /\ p.args = "failed" => (p.state = "rejected" /\ p.worker = "none")
            /\ p.args = "extracted" => p.worker # "none"
            /\ p.worker = "done"
                  => /\ p.settled = 1
                     /\ p.state = IF p.err = "ok" THEN "resolved"
                                  ELSE "rejected"
            /\ p.state = "pending" => p.worker \in {"started", "ran"}

(***************************************************************************)
(* C34.  A wildcard part that is not the last part of a pattern gives no    *)
(* files: once WriteFile(p, t) has made the file p in a directory d, Glob   *)
(* of the pattern that names d, then "*", then one more part "*" returns no *)
(* path of a file held by d itself.                                         *)
(***************************************************************************)
C34_WildcardFilesOnlyLast ==
    [][WroteFile
       => LET real == resolve(heap', fsys, last'.call.path)
              inDir == dirName(real)
              star == (IF inDir = Sep THEN Sep ELSE inDir \o Sep) \o <<"*">>
              deeper == star \o Sep \o <<"*">>
              d == DirAt(heap, fsys, ParentSegs(heap, fsys, last'.call.path))
              held == {FileFullPath(heap', heap'.d[d].files.m[n]) :
                          n \in MapKeys(heap'.d[d].files)}
          IN  /\ last'.err = "ok"
              /\ held # {}
              /\ \A it \in GlobIterations(heap') :
                    LET got == GlobOp(heap', fsys, <<deeper>>, it)
                    IN  /\ got.err = "ok"
                        /\ \A i \in DOMAIN got.paths : got.paths[i] \notin held
         ]_vars

(***************************************************************************)
(* C35.  WriteFile(p, t) on a path p that names an existing directory       *)
(* returns an error value and leaves the tree as it was: no file is made in *)
(* the directory or next to it.                                             *)
(***************************************************************************)
C35_WriteOntoDirFails ==
    [][(/\ last'.call.op = "WriteFile"
        /\ isFilePath(last'.call.path)
        /\ DirAt(heap, fsys,
                 Segments(resolve(heap, fsys, last'.call.path))) # NilId)
       => /\ ~Panicked(last')
          /\ last'.err # "ok"
          /\ heap' = heap]_vars

(***************************************************************************)
(* C36.  The current directory is the root in every reachable state:        *)
(* GetCurrentDirectory returns "/", and every operation, given a relative   *)
(* path r, returns what it returns for "/" followed by r and leaves the     *)
(* same tree, whether r is the source, the destination or a pattern.        *)
(***************************************************************************)
C36_CurrentIsRoot ==
    LET Relative == {EmptyStr, <<"a">>, <<"a", "/">>, <<"A">>, <<"b">>,
                     <<"a", "/", "b">>}
        Abs(r) == Sep \o r
        Others == {<<"/", "a">>, <<"b">>, <<"/", "a", "/", "b">>}
        Same(r) ==
            /\ resolve(heap, fsys, r) = resolve(heap, fsys, Abs(r))
            /\ \A t \in Texts :
                  WriteFileOp(heap, fsys, r, t, clock)
                     = WriteFileOp(heap, fsys, Abs(r), t, clock)
            /\ MkdirOp(heap, fsys, r, clock) = MkdirOp(heap, fsys, Abs(r), clock)
            /\ DeleteOp(heap, fsys, r, clock)
                  = DeleteOp(heap, fsys, Abs(r), clock)
            /\ ReadFileOp(heap, fsys, r, "utf8")
                  = ReadFileOp(heap, fsys, Abs(r), "utf8")
            /\ \A it \in Iterations :
                  ReadDirOp(heap, fsys, r, it) = ReadDirOp(heap, fsys, Abs(r), it)
            /\ FileExists(heap, fsys, r) = FileExists(heap, fsys, Abs(r))
            /\ DirectoryExists(heap, fsys, r)
                  = DirectoryExists(heap, fsys, Abs(r))
            /\ \A it \in GlobIterations(heap) :
                  GlobOp(heap, fsys, <<r>>, it) = GlobOp(heap, fsys, <<Abs(r)>>, it)
            /\ \A q \in Others, remove \in BOOLEAN :
                  /\ copyIterations(heap, fsys, r, q, remove)
                        = copyIterations(heap, fsys, Abs(r), q, remove)
                  /\ copyIterations(heap, fsys, q, r, remove)
                        = copyIterations(heap, fsys, q, Abs(r), remove)
                  /\ \A it \in copyIterations(heap, fsys, r, q, remove) :
                        copyOp(heap, fsys, r, q, remove, clock, it)
                           = copyOp(heap, fsys, Abs(r), q, remove, clock, it)
                  /\ \A it \in copyIterations(heap, fsys, q, r, remove) :
                        copyOp(heap, fsys, q, r, remove, clock, it)
                           = copyOp(heap, fsys, q, Abs(r), remove, clock, it)
    IN  /\ fsys.current = fsys.root
        /\ DirFullPath(heap, fsys.current) = Sep
        /\ last.call.op = "GetCurrentDirectory" => last.out = Sep
        /\ Idle => \A r \in Relative : Same(r)

\* a call with a relative path has made a directory, and the caller has
\* taken its result
C36_Witness ==
    /\ Idle
    /\ fsys.current = fsys.root
    /\ DirAt(heap, fsys, << <<"a">> >>) # NilId
    /\ resolve(heap, fsys, <<"a">>) = <<"/", "a">>
    /\ DirectoryExists(heap, fsys, <<"a">>)

(***************************************************************************)
(* C37.  Moving or copying an entry onto itself loses nothing: a call       *)
(* Move(p, p) or Copy(p, p) on an existing directory or file p succeeds,    *)
(* the entry at p is still there after it, and the tree has the names and   *)
(* the file contents it had before.                                         *)
(***************************************************************************)
C37_OntoItself ==
    [][(/\ last'.call.op \in {"Move", "Copy"}
        /\ last'.call.dest = last'.call.path
        /\ LET segs == Segments(resolve(heap, fsys, last'.call.path))
           IN  DirAt(heap, fsys, segs) # NilId \/ FileAt(heap, fsys, segs) # NilId)
       => LET segs == Segments(resolve(heap, fsys, last'.call.path))
          IN  /\ last'.err = "ok"
              /\ DirAt(heap', fsys, segs) # NilId
                    \/ FileAt(heap', fsys, segs) # NilId
              /\ Structure(heap', fsys) = Structure(heap, fsys)]_vars

(***************************************************************************)
(* C38.  The directories reachable from the root form a finite tree in      *)
(* every reachable state: no directory is its own descendant, and no        *)
(* directory or file node is held by two directories or under two names.    *)
(***************************************************************************)
C38_TreeShape ==
    LET D == DirReach(heap, fsys.root)
        FileHolders(f) ==
            {<<x, k>> \in D \X UNION {MapKeys(heap.d[x].files) : x \in D} :
                MapHas(heap.d[x].files, k) /\ heap.d[x].files.m[k] = f}
    IN  /\ ~HasCycle(heap, fsys.root)
        /\ IsTree(heap, fsys.root)
        /\ \A f \in FilesOf(heap, D) : Cardinality(FileHolders(f)) = 1

(***************************************************************************)
(* C39.  In every reachable state no directory holds a child directory and  *)
(* a file under the same name: no key of its children is a key of its       *)
(* files, and no child directory has the name of one of its files.          *)
(***************************************************************************)
C39_NoSharedName ==
    \A x \in DirReach(heap, fsys.root) :
        /\ MapKeys(heap.d[x].children) \cap MapKeys(heap.d[x].files) = {}
        /\ \A c \in MapKeys(heap.d[x].children), f \in MapKeys(heap.d[x].files) :
              heap.d[heap.d[x].children.m[c]].name
                 # cleanHeadSlash(heap.f[heap.d[x].files.m[f]].name)

(***************************************************************************)
(* C32.  MakeValue maps a Go int v, and a non-nil *int that points to v, by *)
(* range: to a Uint32 value when 0 <= v <= 2^32 - 1, to an Int32 value when *)
(* -2^31 <= v < 0, and to a BigInt otherwise; in every case the number of   *)
(* the script value is v.  A nil pointer and a nil interface map to null.   *)
(***************************************************************************)
C32_IntByRange ==
    (value.pc # "go" /\ value.in.type \in {"nil", "int", "*int"})
       => LET v == value.in.v
              made == value.made
              unsigned == v[1] = 0
              negative == v[1] = -1 /\ v[2] >= 32768
          IN  IF value.in.nil THEN IsNull(made)
              ELSE /\ unsigned => IsUint32(made)
                   /\ negative => IsInt32(made) /\ ~IsUint32(made)
                   /\ ~unsigned /\ ~negative => IsBigInt(made)
                   /\ made.v = v

\* MakeValue has made a BigInt of the *int that points to 2^32,
\* or an Int32 value of the int -2^31
C32_Witness ==
    /\ value.pc = "made"
    /\ \/ value.in = GoValue("*int", FALSE, <<1, 0, 0>>) /\ IsBigInt(value.made)
       \/ value.in = GoValue("int", FALSE, MinInt32) /\ IsInt32(value.made)

(***************************************************************************)
(* C33.  ParseValue inverts MakeValue on strings, booleans and times:       *)
(* parsing the value made of a string or a boolean yields it, and parsing   *)
(* the value made of a time yields a time with the same count of Unix       *)
(* milliseconds.                                                            *)
(***************************************************************************)
C33_RoundTrip ==
    value.pc = "parsed"
       => /\ value.out.err = "ok"
          /\ IF value.in.type = "time.Time"
             THEN UnixMilli(value.out.v) = UnixMilli(value.in.v)
             ELSE value.out.v = value.in.v

\* b is a sequence of well-formed UTF-8 byte sequences (utf8.Valid)
RECURSIVE Valid(_)
Valid(b) ==
    \/ b = << >>
    \/ \E n \in 1..4 :
          /\ n <= Len(b)
          /\ Valid(SubSeq(b, n + 1, Len(b)))
          /\ \A i \in 3..n : b[i] \in 128..191
          /\ CASE n = 1 -> b[1] < 128
               [] n = 2 -> b[1] \in 194..223 /\ b[2] \in 128..191
               [] n = 3 ->
                    \/ b[1] = 224 /\ b[2] \in 160..191
                    \/ b[1] \in (225..236) \cup {238, 239} /\ b[2] \in 128..191
                    \/ b[1] = 237 /\ b[2] \in 128..159
               [] n = 4 ->
                    \/ b[1] = 240 /\ b[2] \in 144..191
                    \/ b[1] \in 241..243 /\ b[2] \in 128..191
                    \/ b[1] = 244 /\ b[2] \in 128..143

\* t lies within 100,000,000 days of the epoch, the range of a script Date
InDateRange(t) ==
    LET ms == UnixMilli(t)
        beyond == <<8640, 0, 0, 0, 0>>
    IN  /\ ms[1] >= -8640
        /\ ms[1] < 8640 \/ ms = beyond

(***************************************************************************)
(* C33, amended.  ParseValue inverts MakeValue on the strings that are      *)
(* valid UTF-8, on booleans, and on the times within 8,640,000,000,000,000  *)
(* milliseconds of the epoch: parsing the value made of such a string or of *)
(* a boolean yields it, and parsing the value made of such a time yields a  *)
(* time with the same count of Unix milliseconds.                           *)
(***************************************************************************)
C33_RoundTripInRange ==
    (/\ value.pc = "parsed"
     /\ value.in.type = "string" => Valid(value.in.v)
     /\ value.in.type = "time.Time" => InDateRange(value.in.v))
       => /\ value.out.err = "ok"
          /\ IF value.in.type = "time.Time"
             THEN UnixMilli(value.out.v) = UnixMilli(value.in.v)
             ELSE value.out.v = value.in.v

\* a string with a sequence of two and of three bytes, or a time with
\* nanoseconds below the millisecond at the far end of the range, has been
\* made into a value and parsed back
C33_Witness ==
    /\ value.pc = "parsed"
    /\ value.out.err = "ok"
    /\ \/ /\ value.in.type = "string"
          /\ value.in.v \in {<<195, 169, 97>>, <<226, 130, 172>>}
          /\ value.out.v = value.in.v
       \/ /\ value.in.type = "time.Time"
          /\ value.in.v = Time(<<8639, 999, 999, 1>>, 999999999)
          /\ value.out.v = Time(<<8639, 999, 999, 1>>, 999000000)

\* the trees the calls of the frames in S leave when they run one after the
\* other on h, in every order
RECURSIVE SerialTrees(_, _)
SerialTrees(h, S) ==
    IF S = {} THEN {Structure(h, fsys)}
    ELSE UNION {SerialTrees(mkdirFrom(h, frames[k].parts, 1, fsys.root, clock).h,
                            S \ {k}) : k \in S}

\* every mkdir call has been made and has returned
AllDone ==
    /\ Len(frames) = MaxFrames
    /\ \A k \in DOMAIN frames : frames[k].pc = "done"

(***************************************************************************)
(* C31.  Asynchronous calls take no lock, so that the reads and writes of   *)
(* concurrent Mkdir calls interleave: the tree the calls leave is the tree  *)
(* of one of their serial orders whenever no goroutine took a step while    *)
(* another was under way, and (the witness) some run in which the steps did *)
(* interleave leaves a tree that no serial order leaves.                    *)
(***************************************************************************)
C31_Unlocked ==
    (AllDone /\ \A k \in DOMAIN frames : ~frames[k].mixed)
       => Structure(heap, fsys)
             \in SerialTrees(NewMemoryFS(fsys.caseSensitive, 0).h,
                             DOMAIN frames)

\* two Mkdir calls have run at once and have returned, and the tree they
\* left is the tree of neither serial order
C31_Witness ==
    /\ AllDone
    /\ \E k \in DOMAIN frames : frames[k].mixed
    /\ Structure(heap, fsys)
          \notin SerialTrees(NewMemoryFS(fsys.caseSensitive, 0).h,
                             DOMAIN frames)

====
